---- MODULE Spec2Model ----
(***************************************************************************)
(* Release orchestration of the golang.org/x module family (tagx) and of   *)
(* gopls: the dependency graph builder, the readiness-driven plan builder  *)
(* and the idempotent tag decision, as state machines.                     *)
(*                                                                         *)
(* A module path is the sequence of its "/"-separated segments, so the     *)
(* empty string (the ModPath of a zero TagRepo) is the empty sequence.     *)
(***************************************************************************)
EXTENDS Integers, Sequences, FiniteSets, TLC

VARIABLES
    projects,   \* Gerrit: the hosted projects, in ListProjects order
    selPc,      \* "Select repositories": "idle", "ok", "err" ("checked": direct call)
    selCycles,  \* the cycles checkCycles returned (SelectRepos, or a direct call)
    repos,      \* []TagRepo: SelectRepos's result and BuildPlan's input
    planPc,     \* BuildPlan: "idle", "loop", "scan", "returned"
    updated,    \* BuildPlan: map repo.ModPath -> handle of its tagging task
    scanIdx,    \* BuildPlan: index of the inner "for _, repo := range repos"
    progress,   \* BuildPlan: the progress flag of the current pass
    passes,     \* BuildPlan: number of passes of the outer loop started
    wd,         \* the workflow definition: the set of tasks registered
    planErr,    \* BuildPlan's result: [err |-> BOOLEAN, missing |-> <<names>>]
    tags,       \* Gerrit: the tags of the project, <<[name, rev]>> in ListTags order
    tagCommit,  \* MaybeTag: the commit to tag
    results,    \* MaybeTag: one record per execution, in order
    branches,   \* Gerrit: the branches of x/tools, <<[name, head]>>
    changes,    \* Gerrit: the changes, <<[id, project, branch, title, status]>>
    issues,     \* GitHub: the titles of the issues of the release milestone
    flow,       \* the gopls workflow that is running: its tasks' results
    events,     \* the mutations made so far and the tag creations issued, in order
    ret,        \* the last direct call of a function: [op, in, out]
    taskOut,    \* engine: the results of the plan's completed tasks
    started     \* engine: one record per start of "generate updated go.mod"

tagVars == <<tags, tagCommit, results>>

runVars == <<branches, changes, issues, flow, events, ret, taskOut, started>>

vars == <<projects, selPc, selCycles, repos, planPc, updated, scanIdx,
          progress, passes, wd, planErr, tagVars, runVars>>

----------------------------------------------------------------------------
(* Bounds of the model *)

\* longest []TagRepo handed to BuildPlan directly
MaxRepos == 3
\* most projects ListProjects returns
MaxProjects == 2
\* most executions of MaybeTag for one module and commit
MaxRuns == 2
\* most tags the project has at the start
MaxTags == 2
\* most files executeAndMonitorChange is asked to watch
MaxWatch == 2

----------------------------------------------------------------------------
(* Generic helpers *)

NoResult == "none"

\* a nil error
NoErr == [err |-> FALSE, missing |-> <<>>]

ToSet(s) == {s[i] : i \in 1..Len(s)}

RECURSIVE Concat(_)
Concat(ss) == IF ss = <<>> THEN <<>> ELSE Head(ss) \o Concat(Tail(ss))

\* all orderings of a finite set, as sequences
Orderings(S) ==
    {f \in [1..Cardinality(S) -> S] : \A i, j \in 1..Cardinality(S) : f[i] = f[j] => i = j}

\* all permutations of a sequence
SeqPermutations(s) ==
    {[i \in 1..Len(s) |-> s[p[i]]] : p \in Orderings(1..Len(s))}

----------------------------------------------------------------------------
(* Module paths *)

XMod   == <<"golang.org", "x", "mod">>
XNet   == <<"golang.org", "x", "net">>
XText  == <<"golang.org", "x", "text">>
XTools == <<"golang.org", "x", "tools">>

\* the order in which a manifest lists its requirements
PathOrder == <<XMod, XNet, XText, XTools>>

\* the requirements among S, in manifest order
PathSeq(S) == SelectSeq(PathOrder, LAMBDA p : p \in S)

\* strings.HasPrefix(path, "golang.org/x/") &&
\*   !strings.Contains(strings.TrimPrefix(path, "golang.org/x/"), "/")
\* (the prefix ends with "/", so a third segment follows, and no fourth)
isX(path) ==
    /\ Len(path) = 3
    /\ path[1] = "golang.org"
    /\ path[2] = "x"

\* var breakCycles: the suppressed (source, target) pairs
breakCycles == {<<XText, XTools>>, <<XText, XMod>>, <<XMod, XTools>>}

----------------------------------------------------------------------------
(* Tag names and version strings *)

\* A name is recorded by its shape and the numbers in it:
\*   "vMmp"  vMAJOR.MINOR.PATCH, with pre the "."-separated parts of its
\*           pre-release: <<>> if it has none, <<"rc", "1">> for "-rc.1"
\*   "vMm"   vMAJOR.MINOR          "vM"     vMAJOR
\*   "Mmp"   MAJOR.MINOR.PATCH without the leading v
\*   "other" a name that is no version      "empty"  the empty string
Name(form, major, minor, patch, pre) ==
    [form |-> form, major |-> major, minor |-> minor, patch |-> patch, pre |-> pre]

Release(major, minor, patch) == Name("vMmp", major, minor, patch, <<>>)

EmptyName == Name("empty", 0, 0, 0, <<>>)

\* the shapes of a name
Forms == {"vMmp", "vMm", "vM", "Mmp", "other", "empty"}

\* the decimal numerals that occur in pre-release parts
Numerals == <<"0", "1", "2", "3", "4", "5", "6", "7", "8", "9">>

\* strconv.Atoi on a pre-release part
Atoi(s) ==
    IF \E k \in 1..Len(Numerals) : Numerals[k] = s
    THEN [err |-> FALSE, n |-> (CHOOSE k \in 1..Len(Numerals) : Numerals[k] = s) - 1]
    ELSE [err |-> TRUE, n |-> 0]

\* fmt's %v of a small int
Itoa(n) == Numerals[n + 1]

----------------------------------------------------------------------------
(* TagRepo *)

TagRepo(name, modPath, deps) ==
    [Name |-> name, ModPath |-> modPath, Deps |-> deps, Version |-> EmptyName]

\* the zero value, which a map lookup of an absent key yields
ZeroRepo == TagRepo("", <<>>, <<>>)

----------------------------------------------------------------------------
(* checkCycles *)

\* reposByModule := map[string]TagRepo{}; later entries overwrite earlier ones
ReposByModule(rs) ==
    [m \in {rs[i].ModPath : i \in 1..Len(rs)} |->
        rs[CHOOSE i \in 1..Len(rs) :
              /\ rs[i].ModPath = m
              /\ \A j \in 1..Len(rs) : rs[j].ModPath = m => j <= i]]

MapLookup(byModule, m) == IF m \in DOMAIN byModule THEN byModule[m] ELSE ZeroRepo

RECURSIVE checkCycles1(_, _, _)
RECURSIVE checkCycles1Deps(_, _, _)

checkCycles1Deps(byModule, deps, stack) ==
    IF deps = <<>> THEN <<>>
    ELSE checkCycles1(byModule, MapLookup(byModule, Head(deps)), stack)
            \o checkCycles1Deps(byModule, Tail(deps), stack)

checkCycles1(byModule, repo, stack0) ==
    LET stack  == Append(stack0, repo.ModPath)
        hits   == SelectSeq([i \in 1..(Len(stack) - 1) |-> i],
                            LAMBDA i : stack[i] = repo.ModPath)
        cycles == [k \in 1..Len(hits) |-> SubSeq(stack, hits[k], Len(stack))]
    IN  IF cycles # <<>> THEN cycles
        ELSE checkCycles1Deps(byModule, repo.Deps, stack)

RECURSIVE shortestFirstOnly(_, _)
\* shortest without its "case len(shortestCycles[0]) == len(cycle)" arm
shortestFirstOnly(cycles, acc) ==
    IF cycles = <<>> THEN acc
    ELSE IF acc = <<>> \/ Len(acc[1]) > Len(Head(cycles))
        THEN shortestFirstOnly(Tail(cycles), <<Head(cycles)>>)
        ELSE shortestFirstOnly(Tail(cycles), acc)

RECURSIVE shortest(_, _)
\* the loop "for _, cycle := range cycles" over shortestCycles
shortest(cycles, acc) ==
    IF cycles = <<>> THEN acc
    ELSE LET cycle == Head(cycles)
         IN  IF acc = <<>> \/ Len(acc[1]) > Len(cycle)
                 THEN shortest(Tail(cycles), <<cycle>>)
             ELSE IF Len(acc[1]) = Len(cycle)
                 THEN IF \E k \in 1..Len(acc) : acc[k] = cycle
                          THEN shortest(Tail(cycles), acc)
                          ELSE shortest(Tail(cycles), Append(acc, cycle))
             ELSE shortest(Tail(cycles), acc)

RECURSIVE firstRootCycles(_, _)
firstRootCycles(byModule, order) ==
    IF order = <<>> THEN <<>>
    ELSE LET found == checkCycles1(byModule, byModule[Head(order)], <<>>)
         IN  IF found # <<>> THEN found ELSE firstRootCycles(byModule, Tail(order))

\* checkCycles leaving "for _, repo := range reposByModule" at the first
\* root that yields a cycle
checkCyclesFirstRoot(rs, order) ==
    shortest(firstRootCycles(ReposByModule(rs), order), <<>>)

\* checkCycles(repos), with order the iteration order of "range reposByModule"
checkCycles(rs, order) ==
    LET byModule == ReposByModule(rs)
        all == Concat([k \in 1..Len(order) |->
                          checkCycles1(byModule, byModule[order[k]], <<>>)])
    IN  shortest(all, <<>>)

\* the iteration orders Go may pick for reposByModule
MapOrders(rs) == Orderings(DOMAIN ReposByModule(rs))

----------------------------------------------------------------------------
(* BuildPlan and planRepo *)

TaskId(sub, name) == <<sub, name>>
Task(sub, name, inputs) == [id |-> TaskId(sub, name), inputs |-> inputs]

\* planRepo with "continue" in place of "return nil, false": a dependency
\* without a handle is left out
planRepoSkipMissing(repo, upd) ==
    LET deps   == {upd[d] : d \in {repo.Deps[k] : k \in 1..Len(repo.Deps)} \cap DOMAIN upd}
        head   == [id |-> <<repo.Name, "read branch head">>, inputs |-> {}]
        gomod  == [id |-> <<repo.Name, "generate updated go.mod">>,
                   inputs |-> deps \cup {head.id}]
        cl     == [id |-> <<repo.Name, "mail updated go.mod">>, inputs |-> {gomod.id}]
        await  == [id |-> <<repo.Name, "wait for submit">>, inputs |-> {cl.id}]
        commit == IF deps # {} THEN await.id ELSE head.id
        green  == [id |-> <<repo.Name, "wait for green post-submit">>,
                   inputs |-> {commit}]
        tagged == [id |-> <<repo.Name, "tag if appropriate">>,
                   inputs |-> {commit, green.id}]
    IN  [ready  |-> TRUE,
         tasks  |-> {head, green, tagged}
                      \cup (IF deps # {} THEN {gomod, cl, await} ELSE {}),
         handle |-> tagged.id]

\* planRepo whose "generate updated go.mod" task takes the branch head only
planRepoGoModOnHead(repo, upd) ==
    IF \E k \in 1..Len(repo.Deps) : repo.Deps[k] \notin DOMAIN upd
    THEN [ready |-> FALSE, tasks |-> {}, handle |-> NoResult]
    ELSE
      LET head   == Task(repo.Name, "read branch head", {})
          gomod  == Task(repo.Name, "generate updated go.mod", {head.id})
          cl     == Task(repo.Name, "mail updated go.mod", {gomod.id})
          await  == Task(repo.Name, "wait for submit", {cl.id})
          commit == IF Len(repo.Deps) # 0 THEN await.id ELSE head.id
          green  == Task(repo.Name, "wait for green post-submit", {commit})
          tagged == Task(repo.Name, "tag if appropriate", {commit, green.id})
      IN  [ready  |-> TRUE,
           tasks  |-> {head, green, tagged}
                        \cup (IF Len(repo.Deps) # 0 THEN {gomod, cl, await} ELSE {}),
           handle |-> tagged.id]

\* planRepo with "tag if appropriate" not ordered after the green gate
planRepoUngated(repo, upd) ==
    IF \E k \in 1..Len(repo.Deps) : repo.Deps[k] \notin DOMAIN upd
    THEN [ready |-> FALSE, tasks |-> {}, handle |-> NoResult]
    ELSE
      LET deps   == {upd[repo.Deps[k]] : k \in 1..Len(repo.Deps)}
          head   == Task(repo.Name, "read branch head", {})
          gomod  == Task(repo.Name, "generate updated go.mod", deps \cup {head.id})
          cl     == Task(repo.Name, "mail updated go.mod", {gomod.id})
          await  == Task(repo.Name, "wait for submit", {cl.id})
          commit == IF Len(repo.Deps) # 0 THEN await.id ELSE head.id
          green  == Task(repo.Name, "wait for green post-submit", {commit})
          tagged == Task(repo.Name, "tag if appropriate", {commit})
      IN  [ready  |-> TRUE,
           tasks  |-> {head, green, tagged}
                        \cup (IF Len(repo.Deps) # 0 THEN {gomod, cl, await} ELSE {}),
           handle |-> tagged.id]

\* planRepo(wd, repo, updated): ready is false if some dependency has no
\* handle yet; otherwise the tasks of repo's sub-definition and the handle of
\* its "tag if appropriate" task
planRepo(repo, upd) ==
    IF \E k \in 1..Len(repo.Deps) : repo.Deps[k] \notin DOMAIN upd
    THEN [ready |-> FALSE, tasks |-> {}, handle |-> NoResult]
    ELSE
      LET deps   == {upd[repo.Deps[k]] : k \in 1..Len(repo.Deps)}
          head   == Task(repo.Name, "read branch head", {})
          gomod  == Task(repo.Name, "generate updated go.mod", deps \cup {head.id})
          cl     == Task(repo.Name, "mail updated go.mod", {gomod.id})
          await  == Task(repo.Name, "wait for submit", {cl.id})
          commit == IF Len(repo.Deps) # 0 THEN await.id ELSE head.id
          green  == Task(repo.Name, "wait for green post-submit", {commit})
          tagged == Task(repo.Name, "tag if appropriate", {commit, green.id})
      IN  [ready  |-> TRUE,
           tasks  |-> {head, green, tagged}
                        \cup (IF Len(repo.Deps) # 0 THEN {gomod, cl, await} ELSE {}),
           handle |-> tagged.id]

\* Missing with the test "updated[r.ModPath] == nil" dropped
MissingAll(rs, upd) == [i \in 1..Len(rs) |-> rs[i].Name]

\* the names BuildPlan lists when a pass made no progress
Missing(rs, upd) ==
    LET names == [i \in 1..Len(rs) |-> rs[i].Name]
        idx   == SelectSeq([i \in 1..Len(rs) |-> i],
                           LAMBDA i : rs[i].ModPath \notin DOMAIN upd)
    IN  [k \in 1..Len(idx) |-> names[idx[k]]]

\* "for len(updated) != len(repos) {": another pass is needed
BuildPlanPass ==
    /\ planPc = "loop"
    /\ Cardinality(DOMAIN updated) # Len(repos)
    /\ planPc' = "scan"
    /\ progress' = FALSE
    /\ scanIdx' = 1
    /\ passes' = passes + 1
    /\ UNCHANGED <<tagVars, runVars>>
    /\ UNCHANGED <<projects, selPc, selCycles, repos, updated, wd, planErr>>

\* BuildPlanVisit without "progress = true"
BuildPlanVisitNoProgress ==
    /\ planPc = "scan"
    /\ scanIdx <= Len(repos)
    /\ LET repo == repos[scanIdx]
           plan == planRepo(repo, updated)
       IN  IF repo.ModPath \in DOMAIN updated \/ ~plan.ready
           THEN UNCHANGED <<updated, wd>>
           ELSE /\ updated' = [m \in DOMAIN updated \cup {repo.ModPath} |->
                                 IF m = repo.ModPath THEN plan.handle ELSE updated[m]]
                /\ wd' = wd \cup plan.tasks
    /\ scanIdx' = scanIdx + 1
    /\ UNCHANGED <<tagVars, runVars>>
    /\ UNCHANGED <<projects, selPc, selCycles, repos, planPc, passes, planErr,
                   progress>>

\* one iteration of "for _, repo := range repos {"
BuildPlanVisit ==
    /\ planPc = "scan"
    /\ scanIdx <= Len(repos)
    /\ LET repo == repos[scanIdx]
           plan == planRepo(repo, updated)
       IN  IF repo.ModPath \in DOMAIN updated \/ ~plan.ready
           THEN UNCHANGED <<updated, wd, progress>>
           ELSE /\ updated' = [m \in DOMAIN updated \cup {repo.ModPath} |->
                                 IF m = repo.ModPath THEN plan.handle ELSE updated[m]]
                /\ wd' = wd \cup plan.tasks
                /\ progress' = TRUE
    /\ scanIdx' = scanIdx + 1
    /\ UNCHANGED <<tagVars, runVars>>
    /\ UNCHANGED <<projects, selPc, selCycles, repos, planPc, passes, planErr>>

\* the end of a pass: "if !progress { ... return fmt.Errorf(...) }"
BuildPlanPassEnd ==
    /\ planPc = "scan"
    /\ scanIdx > Len(repos)
    /\ IF progress
       THEN /\ planPc' = "loop"
            /\ UNCHANGED planErr
       ELSE /\ planPc' = "returned"
            /\ planErr' = [err |-> TRUE, missing |-> Missing(repos, updated)]
    /\ UNCHANGED <<tagVars, runVars>>
    /\ UNCHANGED <<projects, selPc, selCycles, repos, updated, scanIdx,
                   progress, passes, wd>>

\* BuildPlanDone leaving the loop once every distinct module path is planned
BuildPlanDoneDistinct ==
    /\ planPc = "loop"
    /\ DOMAIN updated = {repos[i].ModPath : i \in 1..Len(repos)}
    /\ wd' = wd \cup {Task("", "done", {updated[m] : m \in DOMAIN updated})}
    /\ planPc' = "returned"
    /\ planErr' = NoErr
    /\ UNCHANGED <<tagVars, runVars>>
    /\ UNCHANGED <<projects, selPc, selCycles, repos, updated, scanIdx,
                   progress, passes>>

\* the loop is left: register the final "done" task after every handle
BuildPlanDone ==
    /\ planPc = "loop"
    /\ Cardinality(DOMAIN updated) = Len(repos)
    /\ wd' = wd \cup {Task("", "done", {updated[m] : m \in DOMAIN updated})}
    /\ planPc' = "returned"
    /\ planErr' = NoErr
    /\ UNCHANGED <<tagVars, runVars>>
    /\ UNCHANGED <<projects, selPc, selCycles, repos, updated, scanIdx,
                   progress, passes>>

BuildPlan == BuildPlanPass \/ BuildPlanVisit \/ BuildPlanPassEnd \/ BuildPlanDone

----------------------------------------------------------------------------
(* Inputs *)

\* the module paths of the inputs handed to checkCycles and BuildPlan
ModPaths == {XMod, XText, XTools}

RepoNames == <<"r1", "r2", "r3", "r4", "r5">>

\* a (module path, dependencies) choice for one input entry
RepoChoices == {<<m, D>> : m \in ModPaths, D \in SUBSET ModPaths} \ 
               {<<m, D>> \in ModPaths \X (SUBSET ModPaths) : m \in D}

\* the []TagRepo inputs of length at most n
RepoLists(n) ==
    UNION {{[i \in 1..k |-> TagRepo(RepoNames[i], f[i][1], PathSeq(f[i][2]))] :
               f \in [1..k -> RepoChoices]} : k \in 0..n}

DistinctPaths(rs) == \A i, j \in 1..Len(rs) : rs[i].ModPath = rs[j].ModPath => i = j

----------------------------------------------------------------------------
(* checkCycles called on an arbitrary list of distinct modules *)

InitCycles ==
    /\ repos \in {rs \in RepoLists(Cardinality(ModPaths)) : DistinctPaths(rs)}
    /\ projects = <<>>
    /\ selPc = "idle"
    /\ selCycles = <<>>
    /\ planPc = "idle"
    /\ updated = <<>>
    /\ scanIdx = 0
    /\ progress = FALSE
    /\ passes = 0
    /\ wd = {}
    /\ planErr = NoErr
    /\ tags = <<>>
    /\ tagCommit = ""
    /\ results = <<>>
    /\ branches = <<>>
    /\ changes = <<>>
    /\ issues = <<>>
    /\ flow = <<>>
    /\ events = <<>>
    /\ ret = <<>>
    /\ taskOut = <<>>
    /\ started = <<>>

CallCheckCycles ==
    /\ selPc = "idle"
    /\ \E order \in MapOrders(repos) : selCycles' = checkCycles(repos, order)
    /\ selPc' = "checked"
    /\ UNCHANGED <<tagVars, runVars>>
    /\ UNCHANGED <<projects, repos, planPc, updated, scanIdx, progress, passes,
                   wd, planErr>>

SpecCycles == InitCycles /\ [][CallCheckCycles]_vars

----------------------------------------------------------------------------
(* BuildPlan called on an arbitrary list *)

InitPlan ==
    /\ repos \in RepoLists(MaxRepos)
    /\ projects = <<>>
    /\ selPc = "idle"
    /\ selCycles = <<>>
    /\ planPc = "loop"
    /\ updated = <<>>
    /\ scanIdx = 0
    /\ progress = FALSE
    /\ passes = 0
    /\ wd = {}
    /\ planErr = NoErr
    /\ tags = <<>>
    /\ tagCommit = ""
    /\ results = <<>>
    /\ branches = <<>>
    /\ changes = <<>>
    /\ issues = <<>>
    /\ flow = <<>>
    /\ events = <<>>
    /\ ret = <<>>
    /\ taskOut = <<>>
    /\ started = <<>>

NextPlan == BuildPlan

SpecPlan == InitPlan /\ [][NextPlan]_vars

----------------------------------------------------------------------------
(* SelectRepos and readRepo *)

\* A hosted project: Master and GoMod say what reading the master branch head
\* and go.mod yields ("ok", "notexist": gerrit.ErrResourceNotExist, "error";
\* for go.mod also "parseerror"); Module and Require are the manifest's
\* module path and requirements.
Project(name, master, gomod, module, require) ==
    [Name |-> name, Master |-> master, GoMod |-> gomod, Module |-> module,
     Require |-> require]

\* readRepo without the lookup in breakCycles
readRepoKeepsSuppressed(p) ==
    IF p.Master = "notexist" THEN [kind |-> "skip", repo |-> ZeroRepo]
    ELSE IF p.Master # "ok" THEN [kind |-> "err", repo |-> ZeroRepo]
    ELSE IF p.GoMod = "notexist" THEN [kind |-> "skip", repo |-> ZeroRepo]
    ELSE IF p.GoMod # "ok" THEN [kind |-> "err", repo |-> ZeroRepo]
    ELSE IF ~isX(p.Module) THEN [kind |-> "skip", repo |-> ZeroRepo]
    ELSE [kind |-> "repo",
          repo |-> TagRepo(p.Name, p.Module, SelectSeq(p.Require, LAMBDA r : isX(r)))]

\* readRepo: kind is "repo", "skip" (nil, nil) or "err"
readRepo(p) ==
    IF p.Master = "notexist" THEN [kind |-> "skip", repo |-> ZeroRepo]
    ELSE IF p.Master # "ok" THEN [kind |-> "err", repo |-> ZeroRepo]
    ELSE IF p.GoMod = "notexist" THEN [kind |-> "skip", repo |-> ZeroRepo]
    ELSE IF p.GoMod # "ok" THEN [kind |-> "err", repo |-> ZeroRepo]
    ELSE IF ~isX(p.Module) THEN [kind |-> "skip", repo |-> ZeroRepo]
    ELSE [kind |-> "repo",
          repo |-> TagRepo(p.Name, p.Module,
                           SelectSeq(p.Require,
                                     LAMBDA r : isX(r) /\ <<p.Module, r>> \notin breakCycles))]

\* the loop "for _, p := range projects" of SelectRepos
Discovered(ps) ==
    LET idx == SelectSeq([i \in 1..Len(ps) |-> i], LAMBDA i : readRepo(ps[i]).kind = "repo")
    IN  [k \in 1..Len(idx) |-> readRepo(ps[idx[k]]).repo]

ReadFails(ps) == \E i \in 1..Len(ps) : readRepo(ps[i]).kind = "err"

\* SelectRepos returning the repositories whatever checkCycles found
SelectReposIgnoreCycles ==
    /\ selPc = "idle"
    /\ planPc = "idle"
    /\ ~ReadFails(projects)
    /\ \E order \in MapOrders(Discovered(projects)) :
          selCycles' = checkCycles(Discovered(projects), order)
    /\ selPc' = "ok"
    /\ repos' = Discovered(projects)
    /\ UNCHANGED <<tagVars, runVars>>
    /\ UNCHANGED <<projects, planPc, updated, scanIdx, progress, passes, wd, planErr>>

\* the task "Select repositories"
SelectRepos ==
    /\ selPc = "idle"
    /\ planPc = "idle"
    /\ IF ReadFails(projects)
       THEN /\ selPc' = "err"
            /\ UNCHANGED <<repos, selCycles>>
       ELSE \E order \in MapOrders(Discovered(projects)) :
               LET cycles == checkCycles(Discovered(projects), order)
               IN  /\ selCycles' = cycles
                   /\ IF Len(cycles) # 0
                      THEN selPc' = "err" /\ UNCHANGED repos
                      ELSE selPc' = "ok" /\ repos' = Discovered(projects)
    /\ UNCHANGED <<tagVars, runVars>>
    /\ UNCHANGED <<projects, planPc, updated, scanIdx, progress, passes, wd, planErr>>

\* Gerrit.ListProjects fails
SelectReposListError ==
    /\ selPc = "idle"
    /\ planPc = "idle"
    /\ selPc' = "err"
    /\ UNCHANGED <<tagVars, runVars>>
    /\ UNCHANGED <<projects, selCycles, repos, planPc, updated, scanIdx, progress,
                   passes, wd, planErr>>

\* NewDefinition: the expansion "Create plan" runs BuildPlan on the result of
\* "Select repositories" once that task has succeeded
CreatePlan ==
    /\ selPc = "ok"
    /\ planPc = "idle"
    /\ planPc' = "loop"
    /\ UNCHANGED <<tagVars, runVars>>
    /\ UNCHANGED <<projects, selPc, selCycles, repos, updated, scanIdx, progress,
                   passes, wd, planErr>>

\* the module paths of the hosted projects
FlowPaths == {XNet, XText, XTools}

ProjectChoices ==
    {Project(m[3], master, "ok", m, PathSeq(D)) :
        m \in FlowPaths, master \in {"ok", "notexist"}, D \in SUBSET FlowPaths} \ 
    {p \in [Name : {m[3] : m \in FlowPaths}, Master : {"ok", "notexist"}, GoMod : {"ok"},
            Module : FlowPaths, Require : {PathSeq(D) : D \in SUBSET FlowPaths}] :
        \E k \in 1..Len(p.Require) : p.Require[k] = p.Module}

\* project lists of length at most n, each project listed once
ProjectLists(n) ==
    UNION {{f \in [1..k -> ProjectChoices] :
               \A i, j \in 1..k : f[i].Name = f[j].Name => i = j} : k \in 0..n}

InitFlow ==
    /\ projects \in ProjectLists(MaxProjects)
    /\ repos = <<>>
    /\ selPc = "idle"
    /\ selCycles = <<>>
    /\ planPc = "idle"
    /\ updated = <<>>
    /\ scanIdx = 0
    /\ progress = FALSE
    /\ passes = 0
    /\ wd = {}
    /\ planErr = NoErr
    /\ tags = <<>>
    /\ tagCommit = ""
    /\ results = <<>>
    /\ branches = <<>>
    /\ changes = <<>>
    /\ issues = <<>>
    /\ flow = <<>>
    /\ events = <<>>
    /\ ret = <<>>
    /\ taskOut = <<>>
    /\ started = <<>>

NextFlow == SelectRepos \/ SelectReposListError \/ CreatePlan \/ BuildPlan

SpecFlow == InitFlow /\ [][NextFlow]_vars

----------------------------------------------------------------------------
(* SelectRepos on projects of every kind *)

\* a nested module of the family and a module outside it
XExpEvent == <<"golang.org", "x", "exp", "event">>
GlogPath  == <<"github.com", "golang", "glog">>

\* what reading master and go.mod of a project yields: go.mod is read only
\* when the head of master has been read
ReadOutcomes ==
    {<<"ok", "ok">>, <<"notexist", "ok">>, <<"error", "ok">>, <<"ok", "notexist">>,
     <<"ok", "error">>, <<"ok", "parseerror">>}

\* the requirements of a manifest that has some: the other modules of the
\* family, among them the targets of suppressed pairs, a nested module and a
\* foreign one
RequireAll(module) ==
    SelectSeq(<<XMod, XNet, XText, XTools, XExpEvent, GlogPath>>, LAMBDA r : r # module)

\* the projects hosted: x/net, x/text, x/exp with the nested module and a
\* project with a foreign module
ReadChoices ==
    {Project(m[3], o[1], o[2], m, IF some THEN RequireAll(m) ELSE <<>>) :
        m \in {XNet, XText, XExpEvent, GlogPath}, o \in ReadOutcomes, some \in BOOLEAN}

\* project lists of length at most n, each project listed once
ReadLists(n) ==
    UNION {{f \in [1..k -> ReadChoices] :
               \A i, j \in 1..k : f[i].Name = f[j].Name => i = j} : k \in 0..n}

InitRead ==
    /\ projects \in ReadLists(MaxProjects)
    /\ repos = <<>>
    /\ selPc = "idle"
    /\ selCycles = <<>>
    /\ planPc = "idle"
    /\ updated = <<>>
    /\ scanIdx = 0
    /\ progress = FALSE
    /\ passes = 0
    /\ wd = {}
    /\ planErr = NoErr
    /\ tags = <<>>
    /\ tagCommit = ""
    /\ results = <<>>
    /\ branches = <<>>
    /\ changes = <<>>
    /\ issues = <<>>
    /\ flow = <<>>
    /\ events = <<>>
    /\ ret = <<>>
    /\ taskOut = <<>>
    /\ started = <<>>

NextRead == SelectRepos \/ SelectReposListError

SpecRead == InitRead /\ [][NextRead]_vars

----------------------------------------------------------------------------
(* golang.org/x/mod/semver, as MaybeTag uses it *)

\* semver.IsValid: vMAJOR[.MINOR[.PATCH[-PRERELEASE]]]; the shorthands carry
\* no pre-release
IsValid(v) == v.form \in {"vMmp", "vMm", "vM"}

\* semver.Prerelease: <<>> stands for ""
Prerelease(v) == IF IsValid(v) THEN v.pre ELSE <<>>

Cmp(a, b) == IF a < b THEN -1 ELSE IF a > b THEN 1 ELSE 0

\* the order of the alphanumeric pre-release identifiers
AlphaRank(id) == CHOOSE k \in 1..3 : <<"beta", "pre", "rc">>[k] = id

\* semver's comparePrerelease on "-id.n": a version without pre-release is
\* the larger one
ComparePrerelease(x, y) ==
    IF x = y THEN 0
    ELSE IF x = <<>> THEN 1
    ELSE IF y = <<>> THEN -1
    ELSE IF x[1] # y[1] THEN Cmp(AlphaRank(x[1]), AlphaRank(y[1]))
    ELSE Cmp(Atoi(x[2]).n, Atoi(y[2]).n)

\* semver.Compare of two valid versions
Compare(v, w) ==
    IF v.major # w.major THEN Cmp(v.major, w.major)
    ELSE IF v.minor # w.minor THEN Cmp(v.minor, w.minor)
    ELSE IF v.patch # w.patch THEN Cmp(v.patch, w.patch)
    ELSE ComparePrerelease(v.pre, w.pre)

----------------------------------------------------------------------------
(* Gerrit tags *)

\* Gerrit.ListTags
ListTags(ts) == [i \in 1..Len(ts) |-> ts[i].name]

TagExists(ts, name) == \E i \in 1..Len(ts) : ts[i].name = name

\* Gerrit.GetTag(...).Revision
Revision(ts, name) == ts[CHOOSE i \in 1..Len(ts) : ts[i].name = name].rev

\* Gerrit.Tag: a tag is created only under a name that has no tag yet; the
\* call may fail without creating it ("Tag"), or create it and still report
\* an error ("TagLost")
GerritTag(ts, name, commit, fault) ==
    IF TagExists(ts, name) \/ fault = "Tag"
    THEN [err |-> TRUE, tags |-> ts]
    ELSE [err |-> fault = "TagLost", tags |-> Append(ts, [name |-> name, rev |-> commit])]

\* the failures of the Gerrit calls of one execution of MaybeTag
Faults == {"none", "ListTags", "GetTag", "Tag", "TagLost"}

----------------------------------------------------------------------------
(* MaybeTag and nextMinor *)

\* nextMinor: majorMinorRestRe = ^v(\d+)\.(\d+)\..*$ needs the leading v and
\* two dots; the result is Sprintf("v%s.%d.0", major, minor+1)
nextMinor(version) ==
    IF version.form # "vMmp"
    THEN [err |-> TRUE, version |-> EmptyName]
    ELSE [err |-> FALSE, version |-> Release(version.major, version.minor + 1, 0)]

RECURSIVE highestReleaseAnyValid(_, _)
\* highestRelease without the test semver.Prerelease(tag) == ""
highestReleaseAnyValid(names, highest) ==
    IF names = <<>> THEN highest
    ELSE IF IsValid(Head(names))
            /\ (highest = EmptyName \/ Compare(highest, Head(names)) < 0)
         THEN highestReleaseAnyValid(Tail(names), Head(names))
         ELSE highestReleaseAnyValid(Tail(names), highest)

RECURSIVE highestRelease(_, _)
\* the loop "for _, tag := range tags" of MaybeTag; EmptyName stands for ""
highestRelease(names, highest) ==
    IF names = <<>> THEN highest
    ELSE IF /\ IsValid(Head(names))
            /\ Prerelease(Head(names)) = <<>>
            /\ (highest = EmptyName \/ Compare(highest, Head(names)) < 0)
         THEN highestRelease(Tail(names), Head(names))
         ELSE highestRelease(Tail(names), highest)

\* what one execution of MaybeTag returns and leaves behind: the error, the
\* TagRepo, the name Gerrit.Tag was called with (EmptyName if it was not
\* called), the Gerrit failure that occurred and the tags afterwards
Outcome(err, repo, call, fired, ts) ==
    [err |-> err, repo |-> repo, call |-> call, fired |-> fired, tags |-> ts]

\* MaybeTag without "if tagInfo.Revision == commit"
MaybeTagAlwaysTags(ts, repo, commit, fault) ==
    LET highest == highestRelease(ListTags(ts), EmptyName)
        next    == nextMinor(highest)
        tagged  == GerritTag(ts, next.version, commit, fault)
    IN  IF fault = "ListTags" THEN Outcome(TRUE, ZeroRepo, EmptyName, "ListTags", ts)
        ELSE IF highest = EmptyName THEN Outcome(TRUE, ZeroRepo, EmptyName, "none", ts)
        ELSE IF fault = "GetTag" THEN Outcome(TRUE, ZeroRepo, EmptyName, "GetTag", ts)
        ELSE IF next.err THEN Outcome(TRUE, ZeroRepo, EmptyName, "none", ts)
        ELSE Outcome(tagged.err, [repo EXCEPT !.Version = next.version], next.version,
                     IF fault \in {"Tag", "TagLost"} THEN fault ELSE "none", tagged.tags)

\* MaybeTag reading the revision of the first tag listed
MaybeTagReadsFirst(ts, repo, commit, fault) ==
    LET highest == highestRelease(ListTags(ts), EmptyName)
        next    == nextMinor(highest)
        tagged  == GerritTag(ts, next.version, commit, fault)
    IN  IF fault = "ListTags" THEN Outcome(TRUE, ZeroRepo, EmptyName, "ListTags", ts)
        ELSE IF highest = EmptyName THEN Outcome(TRUE, ZeroRepo, EmptyName, "none", ts)
        ELSE IF fault = "GetTag" THEN Outcome(TRUE, ZeroRepo, EmptyName, "GetTag", ts)
        ELSE IF ts[1].rev = commit
            THEN Outcome(FALSE, [repo EXCEPT !.Version = highest], EmptyName, "none", ts)
        ELSE IF next.err THEN Outcome(TRUE, ZeroRepo, EmptyName, "none", ts)
        ELSE Outcome(tagged.err, [repo EXCEPT !.Version = next.version], next.version,
                     IF fault \in {"Tag", "TagLost"} THEN fault ELSE "none", tagged.tags)

\* MaybeTag(ctx, repo, commit), with fault the Gerrit call that fails
MaybeTag(ts, repo, commit, fault) ==
    LET highest == highestRelease(ListTags(ts), EmptyName)
        next    == nextMinor(highest)
        tagged  == GerritTag(ts, next.version, commit, fault)
    IN  IF fault = "ListTags" THEN Outcome(TRUE, ZeroRepo, EmptyName, "ListTags", ts)
        ELSE IF highest = EmptyName THEN Outcome(TRUE, ZeroRepo, EmptyName, "none", ts)
        ELSE IF fault = "GetTag" THEN Outcome(TRUE, ZeroRepo, EmptyName, "GetTag", ts)
        ELSE IF Revision(ts, highest) = commit
            THEN Outcome(FALSE, [repo EXCEPT !.Version = highest], EmptyName, "none", ts)
        ELSE IF next.err THEN Outcome(TRUE, ZeroRepo, EmptyName, "none", ts)
        ELSE Outcome(tagged.err, [repo EXCEPT !.Version = next.version], next.version,
                     IF fault \in {"Tag", "TagLost"} THEN fault ELSE "none", tagged.tags)

\* the module MaybeTag is run for
TaggedRepo == TagRepo("tools", XTools, <<>>)

\* one execution of the task "tag if appropriate" (the first, or a re-run)
RunMaybeTag ==
    /\ Len(results) < MaxRuns
    /\ \E fault \in Faults :
          LET out == MaybeTag(tags, TaggedRepo, tagCommit, fault)
          IN  /\ tags' = out.tags
              /\ results' = Append(results, [pre |-> tags, out |-> out])
    /\ UNCHANGED <<tagCommit, runVars>>
    /\ UNCHANGED <<projects, selPc, selCycles, repos, planPc, updated, scanIdx,
                   progress, passes, wd, planErr>>

Commits == {"c1", "c2"}

\* the tag names a project starts with: releases, a pre-release above them,
\* the shorthand v0.2, a version without the leading v, and another name
TagNames ==
    {Release(0, 1, 0), Release(0, 1, 1), Release(0, 2, 0), Release(1, 0, 0),
     Name("vMmp", 0, 3, 0, <<"rc", "1">>), Name("vMm", 0, 2, 0, <<>>),
     Name("Mmp", 0, 9, 0, <<>>), Name("other", 0, 0, 0, <<>>)}

\* tag lists of length at most n, each name bound once
TagLists(n) ==
    UNION {{f \in [1..k -> [name : TagNames, rev : Commits]] :
               \A i, j \in 1..k : f[i].name = f[j].name => i = j} : k \in 0..n}

InitTag ==
    /\ tags \in TagLists(MaxTags)
    /\ tagCommit \in Commits
    /\ results = <<>>
    /\ branches = <<>>
    /\ changes = <<>>
    /\ issues = <<>>
    /\ flow = <<>>
    /\ events = <<>>
    /\ ret = <<>>
    /\ taskOut = <<>>
    /\ started = <<>>
    /\ projects = <<>>
    /\ repos = <<>>
    /\ selPc = "idle"
    /\ selCycles = <<>>
    /\ planPc = "idle"
    /\ updated = <<>>
    /\ scanIdx = 0
    /\ progress = FALSE
    /\ passes = 0
    /\ wd = {}
    /\ planErr = NoErr

SpecTag == InitTag /\ [][RunMaybeTag]_vars

----------------------------------------------------------------------------
(* gopls: tag names, semversion and the version computations *)

\* the tag "gopls/" + v
GoplsTag(v) == [v EXCEPT !.form = "gopls/" \o v.form]

\* strings.CutPrefix(tag, "gopls/")
CutPrefix(tag) ==
    IF \E f \in Forms : tag.form = "gopls/" \o f
    THEN [ok |-> TRUE,
          v  |-> [tag EXCEPT !.form = CHOOSE f \in Forms : tag.form = "gopls/" \o f]]
    ELSE [ok |-> FALSE, v |-> tag]

\* type semversion; Pre holds the parts of the text after the first "-"
semversion(major, minor, patch, pre) ==
    [Major |-> major, Minor |-> minor, Patch |-> patch, Pre |-> pre]

ZeroSemversion == semversion(0, 0, 0, <<>>)

\* Sprintf("v%v.%v.%v", semv.Major, semv.Minor, semv.Patch)
VersionString(semv) == Release(semv.Major, semv.Minor, semv.Patch)

\* Sprintf("v%v.%v.%v-%s", semv.Major, semv.Minor, semv.Patch, pre)
PrereleaseString(semv, pre) == Name("vMmp", semv.Major, semv.Minor, semv.Patch, pre)

\* parseSemver: Sscanf("v%d.%d.%d") stores the numbers it has read before it
\* fails, so a shorthand yields ok = false with its leading numbers set
parseSemver(v) ==
    CASE v.form = "vMmp" -> [sem |-> semversion(v.major, v.minor, v.patch, v.pre), ok |-> TRUE]
      [] v.form = "vMm"  -> [sem |-> semversion(v.major, v.minor, 0, v.pre), ok |-> FALSE]
      [] v.form = "vM"   -> [sem |-> semversion(v.major, 0, 0, v.pre), ok |-> FALSE]
      [] OTHER           -> [sem |-> semversion(0, 0, 0, v.pre), ok |-> FALSE]

\* semversion.prereleaseVersion; strings.Split of "" is one empty part
prereleaseVersion(s) ==
    LET parts == IF s.Pre = <<>> THEN <<"">> ELSE s.Pre
    IN  IF Len(parts) = 1 THEN [err |-> TRUE, n |-> 0]
        ELSE IF Len(parts) > 2 THEN [err |-> TRUE, n |-> 0]
        ELSE IF Atoi(parts[2]).err THEN [err |-> TRUE, n |-> 0]
        ELSE IF Atoi(parts[2]).n <= 0 THEN [err |-> TRUE, n |-> 0]
        ELSE [err |-> FALSE, n |-> Atoi(parts[2]).n]

RECURSIVE maxPrereleaseAnyTriple(_, _, _)
\* maxPrerelease without the comparison of Major, Minor and Patch
maxPrereleaseAnyTriple(names, semv, max) ==
    IF names = <<>> THEN max
    ELSE LET cut == CutPrefix(Head(names))
             cur == parseSemver(cut.v)
             pre == prereleaseVersion(cur.sem)
         IN  IF cut.ok /\ cur.ok /\ ~pre.err /\ pre.n > max
             THEN maxPrereleaseAnyTriple(Tail(names), semv, pre.n)
             ELSE maxPrereleaseAnyTriple(Tail(names), semv, max)

RECURSIVE maxPrerelease(_, _, _)
\* the loop "for _, tag := range tags" of currentGoplsPrerelease
maxPrerelease(names, semv, max) ==
    IF names = <<>> THEN max
    ELSE LET cut == CutPrefix(Head(names))
             cur == parseSemver(cut.v)
             pre == prereleaseVersion(cur.sem)
         IN  IF /\ cut.ok
                /\ cur.ok
                /\ cur.sem.Major = semv.Major
                /\ cur.sem.Minor = semv.Minor
                /\ cur.sem.Patch = semv.Patch
                /\ ~pre.err
                /\ pre.n > max
             THEN maxPrerelease(Tail(names), semv, pre.n)
             ELSE maxPrerelease(Tail(names), semv, max)

\* currentGoplsPrerelease(ctx, client, semv)
currentGoplsPrerelease(ts, semv, fault) ==
    IF fault = "ListTags" THEN [err |-> TRUE, n |-> 0]
    ELSE [err |-> FALSE, n |-> maxPrerelease(ListTags(ts), semv, 0)]

\* nextPrerelease: Sprintf("pre.%v", cur+1)
nextPrerelease(ts, semv, fault) ==
    LET cur == currentGoplsPrerelease(ts, semv, fault)
    IN  IF cur.err THEN [err |-> TRUE, pre |-> <<>>]
        ELSE [err |-> FALSE, pre |-> <<"pre", Itoa(cur.n + 1)>>]

RECURSIVE semVersions(_)
\* the first loop of possibleGoplsVersions: the gopls tags that are valid
\* versions without pre-release, parsed (the ok of parseSemver is not read)
semVersions(names) ==
    IF names = <<>> THEN <<>>
    ELSE LET cut == CutPrefix(Head(names))
         IN  IF cut.ok /\ IsValid(cut.v) /\ Prerelease(cut.v) = <<>>
             THEN <<parseSemver(cut.v).sem>> \o semVersions(Tail(names))
             ELSE semVersions(Tail(names))

\* the keys of the nested map majorMinorPatch
majorMinorPatch(svs) == {<<svs[i].Major, svs[i].Minor, svs[i].Patch>> : i \in 1..Len(svs)}

\* append v unless seen[v]
AppendUnseen(acc, v) ==
    IF \E i \in 1..Len(acc) : acc[i] = v THEN acc ELSE Append(acc, v)

RECURSIVE possibleNoCoverTest(_, _, _)
\* the second loop of possibleGoplsVersions without the lookups in
\* majorMinorPatch
possibleNoCoverTest(svs, mmp, acc) ==
    IF svs = <<>> THEN acc
    ELSE LET v  == Head(svs)
             p1 == AppendUnseen(acc, Release(v.Major + 1, 0, 0))
             p2 == AppendUnseen(p1, Release(v.Major, v.Minor + 1, 0))
             p3 == AppendUnseen(p2, Release(v.Major, v.Minor, v.Patch + 1))
         IN  possibleNoCoverTest(Tail(svs), mmp, p3)

RECURSIVE possible(_, _, _)
\* the second loop of possibleGoplsVersions
possible(svs, mmp, acc) ==
    IF svs = <<>> THEN acc
    ELSE LET v  == Head(svs)
             p1 == IF \E t \in mmp : t[1] = v.Major + 1
                   THEN acc
                   ELSE AppendUnseen(acc, Release(v.Major + 1, 0, 0))
             p2 == IF \E t \in mmp : t[1] = v.Major /\ t[2] = v.Minor + 1
                   THEN p1
                   ELSE AppendUnseen(p1, Release(v.Major, v.Minor + 1, 0))
             p3 == IF <<v.Major, v.Minor, v.Patch + 1>> \in mmp
                   THEN p2
                   ELSE AppendUnseen(p2, Release(v.Major, v.Minor, v.Patch + 1))
         IN  possible(Tail(svs), mmp, p3)

RECURSIVE Insert(_, _)
\* v put before the first element that is larger
Insert(sorted, v) ==
    IF sorted = <<>> THEN <<v>>
    ELSE IF Compare(v, Head(sorted)) < 0 THEN <<v>> \o sorted
    ELSE <<Head(sorted)>> \o Insert(Tail(sorted), v)

RECURSIVE SemverSort(_)
\* semver.Sort
SemverSort(vs) == IF vs = <<>> THEN <<>> ELSE Insert(SemverSort(Tail(vs)), Head(vs))

\* possibleGoplsVersions(ctx)
possibleGoplsVersions(ts, fault) ==
    LET svs == semVersions(ListTags(ts))
    IN  IF fault = "ListTags" THEN [err |-> TRUE, versions |-> <<>>]
        ELSE [err |-> FALSE, versions |-> SemverSort(possible(svs, majorMinorPatch(svs), <<>>))]

\* isValidReleaseVersion(ctx, ver)
isValidReleaseVersion(ts, ver, fault) ==
    LET versions == possibleGoplsVersions(ts, fault)
    IN  IF ~IsValid(ver) THEN [err |-> TRUE, semv |-> ZeroSemversion]
        ELSE IF versions.err THEN [err |-> TRUE, semv |-> ZeroSemversion]
        ELSE IF ~\E i \in 1..Len(versions.versions) : versions.versions[i] = ver
        THEN [err |-> TRUE, semv |-> ZeroSemversion]
        ELSE [err |-> FALSE, semv |-> parseSemver(ver).sem]

----------------------------------------------------------------------------
(* Gerrit branches of x/tools *)

\* goplsReleaseBranchName: Sprintf("gopls-release-branch.%v.%v", Major, Minor)
goplsReleaseBranchName(semv) ==
    [name |-> "gopls-release-branch", major |-> semv.Major, minor |-> semv.Minor]

Master == [name |-> "master", major |-> 0, minor |-> 0]

\* a branch of x/tools: its head and whether codereview.cfg at the head has
\* the configuration of a release branch
Branch(name, head, config) == [name |-> name, head |-> head, config |-> config]

BranchExists(brs, name) == \E i \in 1..Len(brs) : brs[i].name = name

\* Gerrit.ReadBranchHead: an error for a branch that does not exist
ReadBranchHead(brs, name, failed) ==
    IF failed \/ ~BranchExists(brs, name)
    THEN [err |-> TRUE, head |-> ""]
    ELSE [err |-> FALSE, head |-> brs[CHOOSE i \in 1..Len(brs) : brs[i].name = name].head]

----------------------------------------------------------------------------
(* isValidPrereleaseVersion *)

\* the failures of the Gerrit calls of one execution of isValidPrereleaseVersion
ValidateFaults == {"none", "ListTags", "ListTagsAgain", "ReadBranchHead", "GetTag"}

\* the error returned with the zero semversion; msg is the fixed text of the
\* message, the name of the failed call for an error that is passed on
Rejected(msg) == [err |-> TRUE, semv |-> ZeroSemversion, msg |-> msg]

\* isValidPrereleaseVersion without the check for a newer pre-release
isValidPrereleaseVersionAcceptsOlder(ts, brs, version, fault) ==
    LET parsed  == parseSemver(version)
        semv    == parsed.sem
        pre     == prereleaseVersion(semv)
        current == currentGoplsPrerelease(ts, semv,
                                          IF fault = "ListTagsAgain" THEN "ListTags" ELSE "none")
        head    == ReadBranchHead(brs, goplsReleaseBranchName(semv), fault = "ReadBranchHead")
        tag     == GoplsTag(version)
    IN  IF ~IsValid(version) THEN Rejected("does not follow semantic version schema")
        ELSE IF ~parsed.ok THEN Rejected("invalid semantic version")
        ELSE IF semv.Pre = <<>> THEN Rejected("does not contain any pre-release version.")
        ELSE IF pre.err THEN Rejected("prereleaseVersion")
        ELSE IF fault = "ListTags" THEN Rejected("ListTags")
        ELSE IF TagExists(ts, GoplsTag(VersionString(semv)))
             THEN Rejected("this version has been released")
        ELSE IF current.err
             THEN Rejected("failed to figure out the current prerelease version")
        ELSE IF current.n < pre.n THEN Rejected("is not yet available")
        ELSE IF head.err THEN Rejected("ReadBranchHead")
        ELSE IF fault = "GetTag" \/ ~TagExists(ts, tag) THEN Rejected("GetTag")
        ELSE IF Revision(ts, tag) # head.head THEN Rejected("but tag points to revision")
        ELSE [err |-> FALSE, semv |-> semv, msg |-> ""]

\* isValidPrereleaseVersion(ctx, version)
isValidPrereleaseVersion(ts, brs, version, fault) ==
    LET parsed  == parseSemver(version)
        semv    == parsed.sem
        pre     == prereleaseVersion(semv)
        current == currentGoplsPrerelease(ts, semv,
                                          IF fault = "ListTagsAgain" THEN "ListTags" ELSE "none")
        head    == ReadBranchHead(brs, goplsReleaseBranchName(semv), fault = "ReadBranchHead")
        tag     == GoplsTag(version)
    IN  IF ~IsValid(version) THEN Rejected("does not follow semantic version schema")
        ELSE IF ~parsed.ok THEN Rejected("invalid semantic version")
        ELSE IF semv.Pre = <<>> THEN Rejected("does not contain any pre-release version.")
        ELSE IF pre.err THEN Rejected("prereleaseVersion")
        ELSE IF fault = "ListTags" THEN Rejected("ListTags")
        ELSE IF TagExists(ts, GoplsTag(VersionString(semv)))
             THEN Rejected("this version has been released")
        ELSE IF current.err
             THEN Rejected("failed to figure out the current prerelease version")
        ELSE IF current.n > pre.n
             THEN Rejected("there is a newer pre-release version available")
        ELSE IF current.n < pre.n THEN Rejected("is not yet available")
        ELSE IF head.err THEN Rejected("ReadBranchHead")
        ELSE IF fault = "GetTag" \/ ~TagExists(ts, tag) THEN Rejected("GetTag")
        ELSE IF Revision(ts, tag) # head.head THEN Rejected("but tag points to revision")
        ELSE [err |-> FALSE, semv |-> semv, msg |-> ""]

----------------------------------------------------------------------------
(* The version computations called directly *)

\* the pre-release parts the inputs carry: none, pre.1, pre.3, rc.3, beta.2,
\* pre.0, pre, pre.1.2 and pre.x
PreTokens ==
    {<<>>, <<"pre", "1">>, <<"pre", "3">>, <<"rc", "3">>, <<"beta", "2">>,
     <<"pre", "0">>, <<"pre">>, <<"pre", "1", "2">>, <<"pre", "x">>}

V120 == semversion(1, 2, 0, <<>>)
V121 == semversion(1, 2, 1, <<>>)

\* the tags x/tools starts with: final gopls releases, gopls pre-releases of
\* two triples, gopls tags with other pre-release tokens, a pre-release tag
\* without the prefix and a shorthand
GoplsTagNames ==
    {GoplsTag(Release(1, 2, 0)), GoplsTag(Release(1, 2, 1)), GoplsTag(Release(2, 0, 0)),
     GoplsTag(PrereleaseString(V120, <<"pre", "1">>)),
     GoplsTag(PrereleaseString(V120, <<"pre", "3">>)),
     GoplsTag(PrereleaseString(V121, <<"pre", "2">>)),
     GoplsTag(PrereleaseString(V120, <<"rc", "3">>)),
     GoplsTag(PrereleaseString(V120, <<"pre", "0">>)),
     GoplsTag(PrereleaseString(V120, <<"pre">>)),
     GoplsTag(PrereleaseString(V120, <<"pre", "1", "2">>)),
     PrereleaseString(V120, <<"pre", "2">>),
     GoplsTag(Name("vMm", 1, 3, 0, <<>>))}

\* tag lists of length at most n over the names, each name bound once
GoplsTagLists(names, n) ==
    UNION {{f \in [1..k -> [name : names, rev : {"c1"}]] :
               \A i, j \in 1..k : f[i].name = f[j].name => i = j} : k \in 0..n}

\* the version strings handed to isValidReleaseVersion
ReleaseInputs ==
    {Release(M, m, p) : M \in 1..3, m \in {0, 2, 3}, p \in 0..2}
        \cup {Name("vMm", 1, 3, 0, <<>>), Name("Mmp", 1, 3, 0, <<>>),
              PrereleaseString(semversion(1, 3, 0, <<>>), <<"pre", "1">>)}

\* the version strings handed to isValidPrereleaseVersion
PrereleaseInputs ==
    {PrereleaseString(V120, t) : t \in PreTokens}
        \cup {PrereleaseString(V121, <<"pre", "2">>), Name("vMm", 1, 2, 0, <<>>)}

\* a direct call: the function, its argument, the Gerrit call that failed and
\* what it returned
Call(op, in, fault, out) == [op |-> op, in |-> in, fault |-> fault, out |-> out]

\* no call made yet
NoCall == Call("", EmptyName, "none", EmptyName)

CallIsValidReleaseVersion ==
    /\ ret = NoCall
    /\ \E ver \in ReleaseInputs, fault \in {"none", "ListTags"} :
          ret' = Call("isValidReleaseVersion", ver, fault,
                      isValidReleaseVersion(tags, ver, fault))
    /\ UNCHANGED <<tagVars, branches, changes, issues, flow, events, taskOut, started>>
    /\ UNCHANGED <<projects, selPc, selCycles, repos, planPc, updated, scanIdx,
                   progress, passes, wd, planErr>>

CallNextPrerelease ==
    /\ ret = NoCall
    /\ \E semv \in {V120, V121, semversion(2, 0, 0, <<>>)}, fault \in {"none", "ListTags"} :
          ret' = Call("nextPrerelease", semv, fault, nextPrerelease(tags, semv, fault))
    /\ UNCHANGED <<tagVars, branches, changes, issues, flow, events, taskOut, started>>
    /\ UNCHANGED <<projects, selPc, selCycles, repos, planPc, updated, scanIdx,
                   progress, passes, wd, planErr>>

CallPrereleaseVersion ==
    /\ ret = NoCall
    /\ \E t \in PreTokens :
          LET s == semversion(1, 2, 0, t)
          IN  ret' = Call("prereleaseVersion", s, "none", prereleaseVersion(s))
    /\ UNCHANGED <<tagVars, branches, changes, issues, flow, events, taskOut, started>>
    /\ UNCHANGED <<projects, selPc, selCycles, repos, planPc, updated, scanIdx,
                   progress, passes, wd, planErr>>

CallIsValidPrereleaseVersion ==
    /\ ret = NoCall
    /\ \E version \in PrereleaseInputs, fault \in ValidateFaults :
          ret' = Call("isValidPrereleaseVersion", version, fault,
                      isValidPrereleaseVersion(tags, branches, version, fault))
    /\ UNCHANGED <<tagVars, branches, changes, issues, flow, events, taskOut, started>>
    /\ UNCHANGED <<projects, selPc, selCycles, repos, planPc, updated, scanIdx,
                   progress, passes, wd, planErr>>

InitVersion ==
    /\ tags \in GoplsTagLists(GoplsTagNames, MaxTags)
    /\ branches \in {<<>>, <<Branch(goplsReleaseBranchName(V120), "c1", TRUE)>>,
                     <<Branch(goplsReleaseBranchName(V120), "c2", TRUE)>>}
    /\ ret = NoCall
    /\ tagCommit = ""
    /\ results = <<>>
    /\ changes = <<>>
    /\ issues = <<>>
    /\ flow = <<>>
    /\ events = <<>>
    /\ taskOut = <<>>
    /\ started = <<>>
    /\ projects = <<>>
    /\ repos = <<>>
    /\ selPc = "idle"
    /\ selCycles = <<>>
    /\ planPc = "idle"
    /\ updated = <<>>
    /\ scanIdx = 0
    /\ progress = FALSE
    /\ passes = 0
    /\ wd = {}
    /\ planErr = NoErr

NextVersion ==
    \/ CallIsValidReleaseVersion
    \/ CallNextPrerelease
    \/ CallPrereleaseVersion
    \/ CallIsValidPrereleaseVersion

SpecVersion == InitVersion /\ [][NextVersion]_vars

----------------------------------------------------------------------------
(* Gerrit changes and branches, GitHub issues *)

\* Gerrit.CreateBranch: an error, and nothing created, for a name in use
CreateBranch(brs, name, revision, failed) ==
    IF failed \/ BranchExists(brs, name)
    THEN [err |-> TRUE, branches |-> brs]
    ELSE [err |-> FALSE, branches |-> Append(brs, Branch(name, revision, FALSE))]

\* the title of a change or of an issue: its fixed text and what it names
Title(text, subject) == [text |-> text, subject |-> subject]

\* the identifiers Gerrit gives to changes, in order of creation
ChangeIDs == <<"I1", "I2", "I3", "I4", "I5", "I6", "I7", "I8">>

\* a change of x/tools; recent: modified within the last seven days
Change(id, branch, title, status, owner, recent) ==
    [id |-> id, branch |-> branch, title |-> title, status |-> status,
     owner |-> owner, recent |-> recent]

\* Gerrit.QueryChanges with the query of openCL: message:title status:open
\* owner:gobot@golang.org repo:tools branch:branch -age:7d
QueryChanges(chs, branch, title) ==
    SelectSeq(chs, LAMBDA c : /\ c.title = title
                              /\ c.status = "open"
                              /\ c.owner = "gobot"
                              /\ c.branch = branch
                              /\ c.recent)

\* openCL without "status:open" in the query
openCLAnyStatus(chs, branch, title, failed) ==
    LET found == SelectSeq(chs, LAMBDA c : /\ c.title = title
                                           /\ c.owner = "gobot"
                                           /\ c.branch = branch
                                           /\ c.recent)
    IN  IF failed THEN [err |-> TRUE, id |-> ""]
        ELSE IF Len(found) = 0 THEN [err |-> FALSE, id |-> ""]
        ELSE [err |-> FALSE, id |-> found[1].id]

\* openCL(ctx, gerrit, branch, title)
openCL(chs, branch, title, failed) ==
    LET found == QueryChanges(chs, branch, title)
    IN  IF failed THEN [err |-> TRUE, id |-> ""]
        ELSE IF Len(found) = 0 THEN [err |-> FALSE, id |-> ""]
        ELSE [err |-> FALSE, id |-> found[1].id]

\* Gerrit.CreateAutoSubmitChange: a new open change of gobot
CreateAutoSubmitChange(chs, branch, title, failed) ==
    IF failed THEN [err |-> TRUE, id |-> "", changes |-> chs]
    ELSE [err |-> FALSE, id |-> ChangeIDs[Len(chs) + 1],
          changes |-> Append(chs, Change(ChangeIDs[Len(chs) + 1], branch, title,
                                         "open", "gobot", TRUE))]

\* the commit a change becomes when it is submitted
MergedCommit(id) == "m" \o id

\* Gerrit.Submitted: the commit of a merged change
Submitted(chs, id) ==
    LET c == chs[CHOOSE i \in 1..Len(chs) : chs[i].id = id]
    IN  IF ~\E i \in 1..Len(chs) : chs[i].id = id THEN [err |-> TRUE, done |-> FALSE, commit |-> ""]
        ELSE IF c.status = "merged" THEN [err |-> FALSE, done |-> TRUE, commit |-> MergedCommit(id)]
        ELSE IF c.status = "abandoned" THEN [err |-> TRUE, done |-> FALSE, commit |-> ""]
        ELSE [err |-> FALSE, done |-> FALSE, commit |-> ""]

\* what the log of events records: the mutations made, the tag creations
\* issued and the scripts run by tasks that completed, each with its run
Event(kind, run, what, at) == [kind |-> kind, run |-> run, what |-> what, at |-> at]

----------------------------------------------------------------------------
(* gopls: the tasks of the release workflows *)

\* GitHub: the milestones that exist and the issues, <<[title, milestone]>>;
\* an issue's number is its index
Issues(milestones, list) == [milestones |-> milestones, list |-> list]

\* the title of the tracking issue: "x/tools/gopls: release version vX.Y.Z"
IssueTitle(semv) == Title("x/tools/gopls: release version", VersionString(semv))

\* the failures of the calls of one execution of createReleaseIssue
IssueFaults == {"none", "FetchMilestone", "FetchMilestoneIssues", "GetIssue", "CreateIssue"}

\* createReleaseIssue without the search for an issue with the title
createReleaseIssueAnew(iss, semv, fault) ==
    LET milestone == GoplsTag(VersionString(semv))
        fail      == [err |-> TRUE, id |-> 0, issues |-> iss, created |-> FALSE]
    IN  IF fault = "FetchMilestone" \/ milestone \notin iss.milestones THEN fail
        ELSE IF fault \in {"FetchMilestoneIssues", "CreateIssue"} THEN fail
        ELSE [err |-> FALSE, id |-> Len(iss.list) + 1, created |-> TRUE,
              issues |-> [iss EXCEPT !.list =
                              Append(@, [title |-> IssueTitle(semv), milestone |-> milestone])]]

\* createReleaseIssue(ctx, semv): the milestone is "gopls/" + versionString
createReleaseIssue(iss, semv, fault) ==
    LET milestone == GoplsTag(VersionString(semv))
        ids   == SelectSeq([i \in 1..Len(iss.list) |-> i],
                           LAMBDA i : iss.list[i].milestone = milestone)
        found == SelectSeq(ids, LAMBDA i : iss.list[i].title = IssueTitle(semv))
        fail  == [err |-> TRUE, id |-> 0, issues |-> iss, created |-> FALSE]
    IN  IF fault = "FetchMilestone" \/ milestone \notin iss.milestones THEN fail
        ELSE IF fault = "FetchMilestoneIssues" THEN fail
        ELSE IF fault = "GetIssue" /\ Len(ids) > 0 THEN fail
        ELSE IF Len(found) > 0
            THEN [err |-> FALSE, id |-> found[1], issues |-> iss, created |-> FALSE]
        ELSE IF fault = "CreateIssue" THEN fail
        ELSE [err |-> FALSE, id |-> Len(iss.list) + 1, created |-> TRUE,
              issues |-> [iss EXCEPT !.list =
                              Append(@, [title |-> IssueTitle(semv), milestone |-> milestone])]]

\* the failures of the Gerrit calls of one execution of createBranchIfMinor
BranchFaults == {"none", "ReadBranchHead", "ReadMaster", "CreateBranch"}

\* createBranchIfMinor that creates the branch for a patch release as well
createBranchAlways(brs, semv, fault) ==
    LET branch   == goplsReleaseBranchName(semv)
        existing == ReadBranchHead(brs, branch, fault = "ReadBranchHead")
        head     == ReadBranchHead(brs, Master, fault = "ReadMaster")
        made     == CreateBranch(brs, branch, head.head, fault = "CreateBranch")
    IN  IF ~existing.err THEN [err |-> FALSE, branches |-> brs, call |-> <<>>]
        ELSE IF head.err THEN [err |-> TRUE, branches |-> brs, call |-> <<>>]
        ELSE [err |-> made.err, branches |-> made.branches, call |-> <<head.head>>]

\* createBranchIfMinor(ctx, semv); call: the revision Gerrit.CreateBranch was
\* called with, if it was called
createBranchIfMinor(brs, semv, fault) ==
    LET branch   == goplsReleaseBranchName(semv)
        existing == ReadBranchHead(brs, branch, fault = "ReadBranchHead")
        head     == ReadBranchHead(brs, Master, fault = "ReadMaster")
        made     == CreateBranch(brs, branch, head.head, fault = "CreateBranch")
    IN  IF semv.Patch # 0 THEN [err |-> existing.err, branches |-> brs, call |-> <<>>]
        ELSE IF ~existing.err THEN [err |-> FALSE, branches |-> brs, call |-> <<>>]
        ELSE IF head.err THEN [err |-> TRUE, branches |-> brs, call |-> <<>>]
        ELSE [err |-> made.err, branches |-> made.branches, call |-> <<head.head>>]

\* clTitle of updateCodeReviewConfig: "all: update codereview.cfg for <branch>"
ConfigTitle(semv) ==
    Title("all: update codereview.cfg for",
          Name("gopls-release-branch", semv.Major, semv.Minor, 0, <<>>))

\* the failures of the calls of one execution of a task that mails a change
ChangeFaults == {"none", "QueryChanges", "ReadBranchHead", "ReadFile", "RunScript",
                 "CreateAutoSubmitChange"}

\* updateCodeReviewConfig(ctx, semv, reviewers, issue); created: a change was
\* created
updateCodeReviewConfig(chs, brs, semv, fault) ==
    LET branch == goplsReleaseBranchName(semv)
        open   == openCL(chs, branch, ConfigTitle(semv), fault = "QueryChanges")
        head   == ReadBranchHead(brs, branch, fault = "ReadBranchHead")
        config == brs[CHOOSE i \in 1..Len(brs) : brs[i].name = branch].config
        made   == CreateAutoSubmitChange(chs, branch, ConfigTitle(semv),
                                         fault = "CreateAutoSubmitChange")
        fail   == [err |-> TRUE, id |-> "", changes |-> chs, created |-> FALSE, ran |-> FALSE]
    IN  IF open.err THEN fail
        ELSE IF open.id # ""
            THEN [err |-> FALSE, id |-> open.id, changes |-> chs, created |-> FALSE, ran |-> FALSE]
        ELSE IF head.err THEN fail
        ELSE IF fault = "ReadFile" THEN fail
        ELSE IF config
            THEN [err |-> FALSE, id |-> "", changes |-> chs, created |-> FALSE, ran |-> FALSE]
        ELSE [err |-> made.err, id |-> made.id, changes |-> made.changes,
              created |-> ~made.err, ran |-> FALSE]

\* clTitle of updateXToolsDependency: "gopls: update go.mod for vX.Y.Z-pre.N"
DependencyTitle(semv, pre) == Title("gopls: update go.mod for", PrereleaseString(semv, pre))

\* updateXToolsDependency without the query for an open change
updateXToolsDependencyNoQuery(chs, brs, semv, pre, changed, fault) ==
    LET branch == goplsReleaseBranchName(semv)
        head   == ReadBranchHead(brs, branch, fault = "ReadBranchHead")
        made   == CreateAutoSubmitChange(chs, branch, DependencyTitle(semv, pre),
                                         fault = "CreateAutoSubmitChange")
        fail   == [err |-> TRUE, id |-> "", changes |-> chs, created |-> FALSE, ran |-> FALSE]
    IN  IF pre = <<>> THEN fail
        ELSE IF head.err THEN fail
        ELSE IF fault = "RunScript" THEN [fail EXCEPT !.ran = TRUE]
        ELSE IF ~changed
            THEN [err |-> FALSE, id |-> "", changes |-> chs, created |-> FALSE, ran |-> TRUE]
        ELSE [err |-> made.err, id |-> made.id, changes |-> made.changes,
              created |-> ~made.err, ran |-> TRUE]

\* updateXToolsDependency(ctx, semv, pre, reviewers, issue); changed: the
\* script changes gopls/go.mod or gopls/go.sum; ran: the script was run
updateXToolsDependency(chs, brs, semv, pre, changed, fault) ==
    LET branch == goplsReleaseBranchName(semv)
        open   == openCL(chs, branch, DependencyTitle(semv, pre), fault = "QueryChanges")
        head   == ReadBranchHead(brs, branch, fault = "ReadBranchHead")
        made   == CreateAutoSubmitChange(chs, branch, DependencyTitle(semv, pre),
                                         fault = "CreateAutoSubmitChange")
        fail   == [err |-> TRUE, id |-> "", changes |-> chs, created |-> FALSE, ran |-> FALSE]
    IN  IF pre = <<>> THEN fail
        ELSE IF open.err THEN fail
        ELSE IF open.id # ""
            THEN [err |-> FALSE, id |-> open.id, changes |-> chs, created |-> FALSE, ran |-> FALSE]
        ELSE IF head.err THEN fail
        ELSE IF fault = "RunScript" THEN [fail EXCEPT !.ran = TRUE]
        ELSE IF ~changed
            THEN [err |-> FALSE, id |-> "", changes |-> chs, created |-> FALSE, ran |-> TRUE]
        ELSE [err |-> made.err, id |-> made.id, changes |-> made.changes,
              created |-> ~made.err, ran |-> TRUE]

\* clTitle of updateDependencyIfMinor: "gopls/go.mod: update dependencies
\* following the vX.Y.Z release"
MasterTitle(semv) == Title("gopls/go.mod: update dependencies following the release",
                           VersionString(semv))

\* updateDependencyIfMinor without the test of the patch number
updateDependencyAnyPatch(chs, semv, changed, fault) ==
    LET open == openCL(chs, Master, MasterTitle(semv), fault = "QueryChanges")
        made == CreateAutoSubmitChange(chs, Master, MasterTitle(semv),
                                       fault = "CreateAutoSubmitChange")
        fail == [err |-> TRUE, id |-> "", changes |-> chs, created |-> FALSE, ran |-> FALSE]
        none == [err |-> FALSE, id |-> "", changes |-> chs, created |-> FALSE, ran |-> FALSE]
    IN  IF open.err THEN fail
        ELSE IF open.id # "" THEN [none EXCEPT !.id = open.id]
        ELSE IF fault = "RunScript" THEN [fail EXCEPT !.ran = TRUE]
        ELSE IF ~changed THEN [none EXCEPT !.ran = TRUE]
        ELSE [err |-> made.err, id |-> made.id, changes |-> made.changes,
              created |-> ~made.err, ran |-> TRUE]

\* updateDependencyIfMinor(ctx, reviewers, semv)
updateDependencyIfMinor(chs, semv, changed, fault) ==
    LET open == openCL(chs, Master, MasterTitle(semv), fault = "QueryChanges")
        made == CreateAutoSubmitChange(chs, Master, MasterTitle(semv),
                                       fault = "CreateAutoSubmitChange")
        fail == [err |-> TRUE, id |-> "", changes |-> chs, created |-> FALSE, ran |-> FALSE]
        none == [err |-> FALSE, id |-> "", changes |-> chs, created |-> FALSE, ran |-> FALSE]
    IN  IF semv.Patch # 0 THEN none
        ELSE IF open.err THEN fail
        ELSE IF open.id # "" THEN [none EXCEPT !.id = open.id]
        ELSE IF fault = "RunScript" THEN [fail EXCEPT !.ran = TRUE]
        ELSE IF ~changed THEN [none EXCEPT !.ran = TRUE]
        ELSE [err |-> made.err, id |-> made.id, changes |-> made.changes,
              created |-> ~made.err, ran |-> TRUE]

\* clAwaiter.awaitSubmission: polled is false when Submitted was not called;
\* wait: the change is not submitted yet
awaitSubmission(chs, changeID, failed) ==
    LET s == Submitted(chs, changeID)
    IN  IF changeID = "" THEN [err |-> FALSE, wait |-> FALSE, commit |-> "", polled |-> FALSE]
        ELSE IF failed \/ s.err THEN [err |-> TRUE, wait |-> FALSE, commit |-> "", polled |-> TRUE]
        ELSE [err |-> FALSE, wait |-> ~s.done, commit |-> s.commit, polled |-> TRUE]

\* verifyGoplsInstallation without the test for the empty version
verifyGoplsInstallationAnyVersion(empty, failed) == [err |-> failed]

\* verifyGoplsInstallation(ctx, version): empty stands for version == ""
verifyGoplsInstallation(empty, failed) == [err |-> empty \/ failed]

\* tagPrerelease that computes the pre-release again from the tags it finds
tagPrereleaseRereads(ts, semv, commit, pre, fault) ==
    LET again   == nextPrerelease(ts, semv, "none").pre
        version == PrereleaseString(semv, again)
        tagged  == GerritTag(ts, GoplsTag(version), commit, fault)
    IN  IF commit = "" \/ pre = <<>>
        THEN [err |-> TRUE, version |-> EmptyName, tags |-> ts, noRetry |-> FALSE, call |-> <<>>]
        ELSE [err |-> tagged.err, version |-> IF tagged.err THEN EmptyName ELSE version,
              tags |-> tagged.tags, noRetry |-> TRUE,
              call |-> <<[name |-> GoplsTag(version), rev |-> commit]>>]

\* tagPrerelease without ctx.DisableRetries()
tagPrereleaseRetried(ts, semv, commit, pre, fault) ==
    LET version == PrereleaseString(semv, pre)
        tagged  == GerritTag(ts, GoplsTag(version), commit, fault)
    IN  IF commit = "" \/ pre = <<>>
        THEN [err |-> TRUE, version |-> EmptyName, tags |-> ts, noRetry |-> FALSE, call |-> <<>>]
        ELSE [err |-> tagged.err, version |-> IF tagged.err THEN EmptyName ELSE version,
              tags |-> tagged.tags, noRetry |-> FALSE,
              call |-> <<[name |-> GoplsTag(version), rev |-> commit]>>]

\* tagPrerelease(ctx, semv, commit, pre); noRetry: ctx.DisableRetries() was
\* called; call: what Gerrit.Tag was called with, if it was called
tagPrerelease(ts, semv, commit, pre, fault) ==
    LET version == PrereleaseString(semv, pre)
        tagged  == GerritTag(ts, GoplsTag(version), commit, fault)
    IN  IF commit = "" \/ pre = <<>>
        THEN [err |-> TRUE, version |-> EmptyName, tags |-> ts, noRetry |-> FALSE, call |-> <<>>]
        ELSE [err |-> tagged.err, version |-> IF tagged.err THEN EmptyName ELSE version,
              tags |-> tagged.tags, noRetry |-> TRUE,
              call |-> <<[name |-> GoplsTag(version), rev |-> commit]>>]

\* tagRelease that puts the release tag in the place of the pre-release tag
tagReleaseRenames(ts, semv, fault) ==
    LET pretag == GoplsTag(PrereleaseString(semv, semv.Pre))
        name   == GoplsTag(VersionString(semv))
        rev    == Revision(ts, pretag)
        tagged == GerritTag(ts, name, rev, fault)
    IN  IF fault = "GetTag" \/ ~TagExists(ts, pretag)
        THEN [err |-> TRUE, tags |-> ts, noRetry |-> FALSE, call |-> <<>>]
        ELSE [err |-> tagged.err,
              tags |-> IF tagged.err THEN ts
                       ELSE [i \in 1..Len(ts) |->
                               IF ts[i].name = pretag THEN [name |-> name, rev |-> rev]
                               ELSE ts[i]],
              noRetry |-> TRUE, call |-> <<[name |-> name, rev |-> rev]>>]

\* tagRelease that goes on when the pre-release tag cannot be read
tagReleaseUnread(ts, semv, fault) ==
    LET pretag == GoplsTag(PrereleaseString(semv, semv.Pre))
        name   == GoplsTag(VersionString(semv))
        rev    == IF fault = "GetTag" \/ ~TagExists(ts, pretag) THEN "" ELSE Revision(ts, pretag)
        tagged == GerritTag(ts, name, rev, IF fault = "GetTag" THEN "none" ELSE fault)
    IN  [err |-> tagged.err, tags |-> tagged.tags, noRetry |-> TRUE,
         call |-> <<[name |-> name, rev |-> rev]>>]

\* tagRelease(ctx, semv)
tagRelease(ts, semv, fault) ==
    LET pretag == GoplsTag(PrereleaseString(semv, semv.Pre))
        name   == GoplsTag(VersionString(semv))
        rev    == Revision(ts, pretag)
        tagged == GerritTag(ts, name, rev, fault)
    IN  IF fault = "GetTag" \/ ~TagExists(ts, pretag)
        THEN [err |-> TRUE, tags |-> ts, noRetry |-> FALSE, call |-> <<>>]
        ELSE [err |-> tagged.err, tags |-> tagged.tags, noRetry |-> TRUE,
              call |-> <<[name |-> name, rev |-> rev]>>]

----------------------------------------------------------------------------
(* gopls: the workflow definitions and their execution *)

\* NewPrereleaseDefinition with "tag pre-release" not ordered after the
\* verification
NewPrereleaseDefinitionUnverified ==
    [semv               |-> {},
     prerelease         |-> {"semv"},
     approved           |-> {"semv", "prerelease"},
     issue              |-> {"semv", "approved"},
     branchCreated      |-> {"semv", "issue"},
     configChangeID     |-> {"semv", "issue", "branchCreated"},
     configCommit       |-> {"configChangeID"},
     dependencyChangeID |-> {"semv", "prerelease", "issue", "configCommit"},
     dependencyCommit   |-> {"dependencyChangeID"},
     verified           |-> {"dependencyCommit"},
     prereleaseVersion  |-> {"semv", "dependencyCommit", "prerelease"},
     prereleaseVerified |-> {"prereleaseVersion"},
     announced          |-> {"semv", "prereleaseVersion", "dependencyCommit", "issue",
                             "prereleaseVerified"}]

\* NewPrereleaseDefinition: each task, named as the variable that holds it,
\* with the tasks whose results it takes or is ordered after
NewPrereleaseDefinition ==
    [semv               |-> {},
     prerelease         |-> {"semv"},
     approved           |-> {"semv", "prerelease"},
     issue              |-> {"semv", "approved"},
     branchCreated      |-> {"semv", "issue"},
     configChangeID     |-> {"semv", "issue", "branchCreated"},
     configCommit       |-> {"configChangeID"},
     dependencyChangeID |-> {"semv", "prerelease", "issue", "configCommit"},
     dependencyCommit   |-> {"dependencyChangeID"},
     verified           |-> {"dependencyCommit"},
     prereleaseVersion  |-> {"semv", "dependencyCommit", "prerelease", "verified"},
     prereleaseVerified |-> {"prereleaseVersion"},
     announced          |-> {"semv", "prereleaseVersion", "dependencyCommit", "issue",
                             "prereleaseVerified"}]

\* NewReleaseDefinition
NewReleaseDefinition ==
    [semv     |-> {},
     tagged   |-> {"semv"},
     changeID |-> {"semv", "tagged"},
     awaited  |-> {"changeID"}]

Definition(def) == IF def = "prerelease" THEN NewPrereleaseDefinition ELSE NewReleaseDefinition

\* the results of the tasks of a run before any has completed
NoOut ==
    [semv |-> ZeroSemversion, prerelease |-> <<>>, issue |-> 0, configChangeID |-> "",
     configCommit |-> "", dependencyChangeID |-> "", dependencyCommit |-> "",
     prereleaseVersion |-> EmptyName, changeID |-> ""]

\* a run of a workflow: its definition, its "version" parameter, the tasks
\* that have completed, their results, and "failed" once a task has failed
\* for good
Run(def, version) ==
    [def |-> def, version |-> version, done |-> {}, out |-> NoOut, status |-> "running"]

\* the engine starts a task of a run when the tasks it depends on have
\* completed
Ready(r, task) ==
    /\ r \in 1..Len(flow)
    /\ flow[r].status = "running"
    /\ task \in DOMAIN Definition(flow[r].def)
    /\ task \notin flow[r].done
    /\ Definition(flow[r].def)[task] \subseteq flow[r].done

\* the run after an execution of task: completed with its result, or failed;
\* a failed task is executed again later or, when the engine gives up or
\* retries are disabled, fails the run
After(run, task, err, giveUp, out) ==
    IF err
    THEN [run EXCEPT !.status = IF giveUp THEN "failed" ELSE @]
    ELSE [run EXCEPT !.done = @ \cup {task}, !.out = out]

\* the variables of the multi-module flow
tagxVars == <<projects, selPc, selCycles, repos, planPc, updated, scanIdx, progress,
              passes, wd, planErr, tagCommit, results, taskOut, started>>

\* "validating input version" of the pre-release flow
ValidateRelease(r) ==
    /\ Ready(r, "semv") /\ flow[r].def = "prerelease"
    /\ \E fault \in {"none", "ListTags"}, giveUp \in BOOLEAN :
          LET res == isValidReleaseVersion(tags, flow[r].version, fault)
          IN  flow' = [flow EXCEPT ![r] = After(@, "semv", res.err, giveUp,
                                                [@.out EXCEPT !.semv = res.semv])]
    /\ UNCHANGED <<tags, branches, changes, issues, events, ret, tagxVars>>

\* "find the pre-release version"
FindPrerelease(r) ==
    /\ Ready(r, "prerelease")
    /\ \E fault \in {"none", "ListTags"}, giveUp \in BOOLEAN :
          LET res == nextPrerelease(tags, flow[r].out.semv, fault)
          IN  flow' = [flow EXCEPT ![r] = After(@, "prerelease", res.err, giveUp,
                                                [@.out EXCEPT !.prerelease = res.pre])]
    /\ UNCHANGED <<tags, branches, changes, issues, events, ret, tagxVars>>

\* "wait for release coordinator approval": approveVersion returns what
\* ApproveAction returns
Approve(r) ==
    /\ Ready(r, "approved")
    /\ \E denied \in BOOLEAN, giveUp \in BOOLEAN :
          flow' = [flow EXCEPT ![r] = After(@, "approved", denied, giveUp, @.out)]
    /\ UNCHANGED <<tags, branches, changes, issues, events, ret, tagxVars>>

\* "create release git issue"
CreateReleaseIssue(r) ==
    /\ Ready(r, "issue")
    /\ \E fault \in IssueFaults, giveUp \in BOOLEAN :
          LET res == createReleaseIssue(issues, flow[r].out.semv, fault)
          IN  /\ issues' = res.issues
              /\ events' = IF res.created
                           THEN Append(events, Event("CreateIssue", r,
                                                     IssueTitle(flow[r].out.semv), ""))
                           ELSE events
              /\ flow' = [flow EXCEPT ![r] = After(@, "issue", res.err, giveUp,
                                                    [@.out EXCEPT !.issue = res.id])]
    /\ UNCHANGED <<tags, branches, changes, ret, tagxVars>>

\* "creating new branch if minor release"
CreateBranchIfMinor(r) ==
    /\ Ready(r, "branchCreated")
    /\ \E fault \in BranchFaults, giveUp \in BOOLEAN :
          LET res == createBranchIfMinor(branches, flow[r].out.semv, fault)
          IN  /\ branches' = res.branches
              /\ events' = IF res.call # <<>> /\ ~res.err
                           THEN Append(events, Event("CreateBranch", r,
                                                     goplsReleaseBranchName(flow[r].out.semv),
                                                     res.call[1]))
                           ELSE events
              /\ flow' = [flow EXCEPT ![r] = After(@, "branchCreated", res.err, giveUp, @.out)]
    /\ UNCHANGED <<tags, changes, issues, ret, tagxVars>>

\* "updating branch's codereview.cfg"
UpdateCodeReviewConfig(r) ==
    /\ Ready(r, "configChangeID")
    /\ \E fault \in ChangeFaults \ {"RunScript"}, giveUp \in BOOLEAN :
          LET res == updateCodeReviewConfig(changes, branches, flow[r].out.semv, fault)
          IN  /\ changes' = res.changes
              /\ events' = IF res.created
                           THEN Append(events, Event("CreateChange", r,
                                                     ConfigTitle(flow[r].out.semv), res.id))
                           ELSE events
              /\ flow' = [flow EXCEPT ![r] = After(@, "configChangeID", res.err, giveUp,
                                                    [@.out EXCEPT !.configChangeID = res.id])]
    /\ UNCHANGED <<tags, branches, issues, ret, tagxVars>>

\* "await config CL submission"; while the change is open the task polls on
AwaitConfig(r) ==
    /\ Ready(r, "configCommit")
    /\ \E failed \in BOOLEAN, giveUp \in BOOLEAN :
          LET res == awaitSubmission(changes, flow[r].out.configChangeID, failed)
          IN  /\ ~res.wait
              /\ flow' = [flow EXCEPT ![r] = After(@, "configCommit", res.err, giveUp,
                                                    [@.out EXCEPT !.configCommit = res.commit])]
    /\ UNCHANGED <<tags, branches, changes, issues, events, ret, tagxVars>>

\* "updating gopls' x/tools dependency"
UpdateXToolsDependency(r) ==
    /\ Ready(r, "dependencyChangeID")
    /\ \E fault \in ChangeFaults \ {"ReadFile"}, changed \in BOOLEAN, giveUp \in BOOLEAN :
          LET res == updateXToolsDependency(changes, branches, flow[r].out.semv,
                                            flow[r].out.prerelease, changed, fault)
          IN  /\ changes' = res.changes
              /\ events' = events
                             \o (IF res.ran /\ ~res.err
                                 THEN <<Event("RunScript", r, DependencyTitle(flow[r].out.semv,
                                                                flow[r].out.prerelease), "")>>
                                 ELSE <<>>)
                             \o (IF res.created
                                 THEN <<Event("CreateChange", r, DependencyTitle(flow[r].out.semv,
                                                                   flow[r].out.prerelease), res.id)>>
                                 ELSE <<>>)
              /\ flow' = [flow EXCEPT ![r] = After(@, "dependencyChangeID", res.err, giveUp,
                                                    [@.out EXCEPT !.dependencyChangeID = res.id])]
    /\ UNCHANGED <<tags, branches, issues, ret, tagxVars>>

\* "await gopls' x/tools dependency CL submission"
AwaitDependency(r) ==
    /\ Ready(r, "dependencyCommit")
    /\ \E failed \in BOOLEAN, giveUp \in BOOLEAN :
          LET res == awaitSubmission(changes, flow[r].out.dependencyChangeID, failed)
          IN  /\ ~res.wait
              /\ flow' = [flow EXCEPT ![r] = After(@, "dependencyCommit", res.err, giveUp,
                                                    [@.out EXCEPT !.dependencyCommit = res.commit])]
    /\ UNCHANGED <<tags, branches, changes, issues, events, ret, tagxVars>>

\* "verify installing latest gopls using release branch dependency commit"
VerifyCommit(r) ==
    /\ Ready(r, "verified")
    /\ \E failed \in BOOLEAN, giveUp \in BOOLEAN :
          LET res == verifyGoplsInstallation(flow[r].out.dependencyCommit = "", failed)
          IN  flow' = [flow EXCEPT ![r] = After(@, "verified", res.err, giveUp, @.out)]
    /\ UNCHANGED <<tags, branches, changes, issues, events, ret, tagxVars>>

\* "tag pre-release"
TagPrerelease(r) ==
    /\ Ready(r, "prereleaseVersion")
    /\ \E fault \in {"none", "Tag", "TagLost"}, giveUp \in BOOLEAN :
          LET res == tagPrerelease(tags, flow[r].out.semv, flow[r].out.dependencyCommit,
                                   flow[r].out.prerelease, fault)
          IN  /\ tags' = res.tags
              /\ events' = IF res.call # <<>>
                           THEN Append(events, Event("Tag", r, res.call[1].name, res.call[1].rev))
                           ELSE events
              /\ flow' = [flow EXCEPT ![r] = After(@, "prereleaseVersion", res.err,
                                                    giveUp \/ res.noRetry,
                                                    [@.out EXCEPT !.prereleaseVersion = res.version])]
    /\ UNCHANGED <<branches, changes, issues, ret, tagxVars>>

\* "verify installing latest gopls using release branch pre-release version"
VerifyVersion(r) ==
    /\ Ready(r, "prereleaseVerified")
    /\ \E failed \in BOOLEAN, giveUp \in BOOLEAN :
          LET res == verifyGoplsInstallation(flow[r].out.prereleaseVersion = EmptyName, failed)
          IN  flow' = [flow EXCEPT ![r] = After(@, "prereleaseVerified", res.err, giveUp, @.out)]
    /\ UNCHANGED <<tags, branches, changes, issues, events, ret, tagxVars>>

\* "mail announcement": mailAnnouncement returns what SendMail returns
MailAnnouncement(r) ==
    /\ Ready(r, "announced")
    /\ \E failed \in BOOLEAN, giveUp \in BOOLEAN :
          /\ events' = IF failed THEN events
                       ELSE Append(events, Event("SendMail", r, flow[r].out.prereleaseVersion, ""))
          /\ flow' = [flow EXCEPT ![r] = After(@, "announced", failed, giveUp, @.out)]
    /\ UNCHANGED <<tags, branches, changes, issues, ret, tagxVars>>

\* "validating input version" of the release flow
ValidatePrerelease(r) ==
    /\ Ready(r, "semv") /\ flow[r].def = "release"
    /\ \E fault \in ValidateFaults, giveUp \in BOOLEAN :
          LET res == isValidPrereleaseVersion(tags, branches, flow[r].version, fault)
          IN  flow' = [flow EXCEPT ![r] = After(@, "semv", res.err, giveUp,
                                                [@.out EXCEPT !.semv = res.semv])]
    /\ UNCHANGED <<tags, branches, changes, issues, events, ret, tagxVars>>

\* "tag the release"
TagRelease(r) ==
    /\ Ready(r, "tagged")
    /\ \E fault \in {"none", "GetTag", "Tag", "TagLost"}, giveUp \in BOOLEAN :
          LET res == tagRelease(tags, flow[r].out.semv, fault)
          IN  /\ tags' = res.tags
              /\ events' = IF res.call # <<>>
                           THEN Append(events, Event("Tag", r, res.call[1].name, res.call[1].rev))
                           ELSE events
              /\ flow' = [flow EXCEPT ![r] = After(@, "tagged", res.err,
                                                    giveUp \/ res.noRetry, @.out)]
    /\ UNCHANGED <<branches, changes, issues, ret, tagxVars>>

\* "updating x/tools dependency in master branch in gopls sub dir"
UpdateDependencyIfMinor(r) ==
    /\ Ready(r, "changeID")
    /\ \E fault \in ChangeFaults \ {"ReadFile", "ReadBranchHead"}, changed \in BOOLEAN,
          giveUp \in BOOLEAN :
          LET res == updateDependencyIfMinor(changes, flow[r].out.semv, changed, fault)
          IN  /\ changes' = res.changes
              /\ events' = events
                             \o (IF res.ran /\ ~res.err
                                 THEN <<Event("RunScript", r, MasterTitle(flow[r].out.semv), "")>>
                                 ELSE <<>>)
                             \o (IF res.created
                                 THEN <<Event("CreateChange", r, MasterTitle(flow[r].out.semv),
                                              res.id)>>
                                 ELSE <<>>)
              /\ flow' = [flow EXCEPT ![r] = After(@, "changeID", res.err, giveUp,
                                                    [@.out EXCEPT !.changeID = res.id])]
    /\ UNCHANGED <<tags, branches, issues, ret, tagxVars>>

\* "await x/tools gopls dependency CL submission in gopls sub dir"
AwaitMaster(r) ==
    /\ Ready(r, "awaited")
    /\ \E failed \in BOOLEAN, giveUp \in BOOLEAN :
          LET res == awaitSubmission(changes, flow[r].out.changeID, failed)
          IN  /\ ~res.wait
              /\ flow' = [flow EXCEPT ![r] = After(@, "awaited", res.err, giveUp, @.out)]
    /\ UNCHANGED <<tags, branches, changes, issues, events, ret, tagxVars>>

\* a reviewer submits an open change: it is merged and its commit becomes the
\* head of its branch; a change to codereview.cfg brings the configuration
SubmitChange ==
    /\ \E i \in 1..Len(changes) :
          /\ changes[i].status = "open"
          /\ changes' = [changes EXCEPT ![i].status = "merged"]
          /\ branches' = [b \in 1..Len(branches) |->
                            IF branches[b].name = changes[i].branch
                            THEN Branch(branches[b].name, MergedCommit(changes[i].id),
                                        branches[b].config
                                          \/ changes[i].title.text = "all: update codereview.cfg for")
                            ELSE branches[b]]
    /\ UNCHANGED <<tags, issues, flow, events, ret, tagxVars>>

----------------------------------------------------------------------------
(* gopls: the runs the model follows *)

V130 == semversion(1, 3, 0, <<>>)

\* a tag of gopls
Tagged(version, rev) == [name |-> GoplsTag(version), rev |-> rev]

\* the tags of x/tools at the start: the release v1.2.0; with it the
\* pre-release v1.2.1-pre.1 at c2, or the pre-release v1.3.0-pre.1 at c3
StartTags ==
    {<<Tagged(Release(1, 2, 0), "c1")>>,
     <<Tagged(Release(1, 2, 0), "c1"), Tagged(PrereleaseString(V121, <<"pre", "1">>), "c2")>>,
     <<Tagged(Release(1, 2, 0), "c1"), Tagged(PrereleaseString(V130, <<"pre", "1">>), "c3")>>}

BothPrereleases ==
    <<Tagged(Release(1, 2, 0), "c1"), Tagged(PrereleaseString(V121, <<"pre", "1">>), "c2"),
      Tagged(PrereleaseString(V130, <<"pre", "1">>), "c3")>>

\* the branches at the start: master; with it gopls-release-branch.1.2 at
\* c2 or at a later commit c4, or gopls-release-branch.1.3 at c3, whose
\* codereview.cfg is not yet written
StartBranches ==
    {<<Branch(Master, "c1", FALSE)>>,
     <<Branch(Master, "c1", FALSE), Branch(goplsReleaseBranchName(V120), "c2", TRUE)>>,
     <<Branch(Master, "c1", FALSE), Branch(goplsReleaseBranchName(V120), "c4", TRUE)>>,
     <<Branch(Master, "c1", FALSE), Branch(goplsReleaseBranchName(V130), "c3", FALSE)>>}

BothBranches ==
    <<Branch(Master, "c1", FALSE), Branch(goplsReleaseBranchName(V120), "c2", TRUE),
      Branch(goplsReleaseBranchName(V130), "c3", FALSE)>>

\* the changes at the start: none; or a change with the title of the go.mod
\* update of v1.2.1-pre.2 that is open, of gobot and recent, or lacks one of
\* the three; or an open change with the title of the update of master that
\* follows v1.3.0
StartChanges ==
    {<<>>,
     <<Change("I1", Master, MasterTitle(V130), "open", "gobot", TRUE)>>}
    \cup
    {<<Change("I1", goplsReleaseBranchName(V120), DependencyTitle(V121, <<"pre", "2">>),
              c[1], c[2], c[3])>> :
        c \in {<<"open", "gobot", TRUE>>, <<"open", "gobot", FALSE>>,
               <<"open", "other", TRUE>>, <<"abandoned", "gobot", TRUE>>}}

\* an issue of a milestone
Issue(title, milestone) == [title |-> title, milestone |-> milestone]

\* the issues at the start: the milestones of v1.2.1 and v1.3.0 without
\* issues, or with the tracking issue of v1.3.0, or each with the tracking
\* issue of the other version; or no milestone
StartIssues ==
    {Issues({GoplsTag(Release(1, 2, 1)), GoplsTag(Release(1, 3, 0))}, list) :
        list \in {<<>>,
                  <<Issue(IssueTitle(V130), GoplsTag(Release(1, 3, 0)))>>,
                  <<Issue(IssueTitle(V130), GoplsTag(Release(1, 2, 1))),
                    Issue(IssueTitle(V121), GoplsTag(Release(1, 3, 0)))>>}}
        \cup {Issues({}, <<>>)}

\* the runs started: pre-release runs for v1.3.0 and v1.2.1, release runs for
\* v1.2.1-pre.1 and v1.3.0-pre.1
RunChoices ==
    {Run("prerelease", Release(1, 3, 0)), Run("prerelease", Release(1, 2, 1)),
     Run("release", PrereleaseString(V121, <<"pre", "1">>)),
     Run("release", PrereleaseString(V130, <<"pre", "1">>))}

\* the multi-module flow tags x/tools in the course of a gopls run: "tag if
\* appropriate" for the commit tagCommit
TagIfAppropriate ==
    /\ tagCommit # ""
    /\ RunMaybeTag

\* one run in any of the starting states; or two runs for the same version
\* side by side; or one run while the multi-module flow tags x/tools, whose
\* own release v0.1.0 is at c1
InitGopls ==
    /\ \/ /\ tags \in StartTags
          /\ branches \in StartBranches
          /\ changes \in StartChanges
          /\ issues \in StartIssues
          /\ flow \in {<<a>> : a \in RunChoices}
          /\ tagCommit = ""
       \/ /\ tags = BothPrereleases
          /\ branches = BothBranches
          /\ changes = <<>>
          /\ issues = Issues({GoplsTag(Release(1, 2, 1)), GoplsTag(Release(1, 3, 0))}, <<>>)
          /\ flow \in {<<a, a>> : a \in RunChoices}
          /\ tagCommit = ""
       \/ /\ tags = BothPrereleases \o <<[name |-> Release(0, 1, 0), rev |-> "c1"]>>
          /\ branches = BothBranches
          /\ changes = <<>>
          /\ issues = Issues({GoplsTag(Release(1, 2, 1)), GoplsTag(Release(1, 3, 0))}, <<>>)
          /\ flow \in {<<a>> : a \in RunChoices}
          /\ tagCommit \in Commits
    /\ events = <<>>
    /\ ret = NoCall
    /\ results = <<>>
    /\ taskOut = <<>>
    /\ started = <<>>
    /\ projects = <<>>
    /\ repos = <<>>
    /\ selPc = "idle"
    /\ selCycles = <<>>
    /\ planPc = "idle"
    /\ updated = <<>>
    /\ scanIdx = 0
    /\ progress = FALSE
    /\ passes = 0
    /\ wd = {}
    /\ planErr = NoErr

NextGopls ==
    \/ \E r \in 1..Len(flow) : ValidateRelease(r)
    \/ \E r \in 1..Len(flow) : FindPrerelease(r)
    \/ \E r \in 1..Len(flow) : Approve(r)
    \/ \E r \in 1..Len(flow) : CreateReleaseIssue(r)
    \/ \E r \in 1..Len(flow) : CreateBranchIfMinor(r)
    \/ \E r \in 1..Len(flow) : UpdateCodeReviewConfig(r)
    \/ \E r \in 1..Len(flow) : AwaitConfig(r)
    \/ \E r \in 1..Len(flow) : UpdateXToolsDependency(r)
    \/ \E r \in 1..Len(flow) : AwaitDependency(r)
    \/ \E r \in 1..Len(flow) : VerifyCommit(r)
    \/ \E r \in 1..Len(flow) : TagPrerelease(r)
    \/ \E r \in 1..Len(flow) : VerifyVersion(r)
    \/ \E r \in 1..Len(flow) : MailAnnouncement(r)
    \/ \E r \in 1..Len(flow) : ValidatePrerelease(r)
    \/ \E r \in 1..Len(flow) : TagRelease(r)
    \/ \E r \in 1..Len(flow) : UpdateDependencyIfMinor(r)
    \/ \E r \in 1..Len(flow) : AwaitMaster(r)
    \/ SubmitChange
    \/ TagIfAppropriate

SpecGopls == InitGopls /\ [][NextGopls]_vars

----------------------------------------------------------------------------
(* The dependency graph, defined without reference to checkCycles *)

Nodes(rs) == {rs[i].ModPath : i \in 1..Len(rs)}

\* m depends on d, both members of the module set
Edge(rs, m, d) ==
    /\ m \in Nodes(rs)
    /\ d \in Nodes(rs)
    /\ \E k \in 1..Len(ReposByModule(rs)[m].Deps) : ReposByModule(rs)[m].Deps[k] = d

\* every simple cycle, written from each of its nodes: <<a1, ..., ak, a1>>
SimpleCycles(rs) ==
    UNION {{f \o <<f[1]>> :
              f \in {g \in [1..k -> Nodes(rs)] :
                        /\ \A i, j \in 1..k : g[i] = g[j] => i = j
                        /\ \A i \in 1..(k - 1) : Edge(rs, g[i], g[i + 1])
                        /\ Edge(rs, g[k], g[1])}} :
           k \in 1..Cardinality(Nodes(rs))}

Acyclic(rs) == SimpleCycles(rs) = {}

MinCycleLen(rs) ==
    CHOOSE n \in {Len(c) : c \in SimpleCycles(rs)} :
        \A c \in SimpleCycles(rs) : n <= Len(c)

\* every dependency of every entry is the module path of some entry
DepsClosed(rs) ==
    \A i \in 1..Len(rs) : \A k \in 1..Len(rs[i].Deps) : rs[i].Deps[k] \in Nodes(rs)

----------------------------------------------------------------------------
(* executeAndMonitorChange *)

\* the files of the checkout that the model follows: two files of gopls, a
\* file named like the copy kept of the first, and a name with a quote
FileNames == {"go.mod", "go.sum", "go.mod.before", "it's"}

\* file + ".before"
Before(file) == file \o ".before"

\* strings.Contains(file, "'")
ContainsQuote(file) == file = "it's"

\* what a file holds; Absent for a file that does not exist
Contents == {"", "a"}
Absent == "absent"

\* the checkouts of the branch: every file of FileNames without a quote
\* holds something or is absent, no other file exists
Checkouts ==
    {[n \in FileNames \cup {Before(f) : f \in FileNames} |->
         IF n \in DOMAIN held THEN held[n] ELSE Absent] :
        held \in [{f \in FileNames : ~ContainsQuote(f)} -> Contents \cup {Absent}]}

\* the script handed in: the file it writes, if any, with what it writes,
\* and whether it ends successfully
Scripts ==
    {[writes |-> w, ok |-> ok] :
        w \in {<<>>} \cup {[n \in {f} |-> c] : f \in {"go.mod", "go.sum", "go.mod.before"},
                                              c \in Contents},
        ok \in BOOLEAN}

\* the part of fullScript that copies every watched file, in the order of
\* watchFiles: "cp file file.before", or "touch file file.before" for a file
\* that does not exist
RECURSIVE copyBefore(_, _)
copyBefore(fs, watchFiles) ==
    IF watchFiles = <<>> THEN fs
    ELSE LET file == Head(watchFiles)
             next == IF fs[file] # Absent
                     THEN [fs EXCEPT ![Before(file)] = fs[file]]
                     ELSE [fs EXCEPT ![file] = "", ![Before(file)] = ""]
         IN  copyBefore(next, Tail(watchFiles))

\* the script proper, run after the copies
runScript(fs, script) ==
    [n \in DOMAIN fs |-> IF n \in DOMAIN script.writes THEN script.writes[n] ELSE fs[n]]

\* the failures of one execution: of CloudBuild.RunScript, of buildToOutputs
MonitorFaults == {"none", "RunScript", "buildToOutputs"}

\* the result: err, and the map returned (empty for nil)
Monitored(err, changed) == [err |-> err, changed |-> changed]

\* executeAndMonitorChange that maps a changed file to its content before
executeAndMonitorChangeBefore(fs, script, watchFiles, fault) ==
    LET outputs == runScript(copyBefore(fs, watchFiles), script)
        names   == {watchFiles[i] : i \in 1..Len(watchFiles)}
    IN  IF \E i \in 1..Len(watchFiles) : ContainsQuote(watchFiles[i])
        THEN Monitored(TRUE, <<>>)
        ELSE IF fault = "RunScript" THEN Monitored(TRUE, <<>>)
        ELSE IF fault = "buildToOutputs" \/ ~script.ok THEN Monitored(TRUE, <<>>)
        ELSE Monitored(FALSE, [f \in {n \in names : outputs[Before(n)] # outputs[n]} |->
                                  outputs[Before(f)]])

\* executeAndMonitorChange(ctx, cloudBuild, branch, script, watchFiles), run
\* on the checkout fs; the build of a script that fails is a failed build,
\* for which buildToOutputs returns an error
executeAndMonitorChange(fs, script, watchFiles, fault) ==
    LET outputs == runScript(copyBefore(fs, watchFiles), script)
        names   == {watchFiles[i] : i \in 1..Len(watchFiles)}
    IN  IF \E i \in 1..Len(watchFiles) : ContainsQuote(watchFiles[i])
        THEN Monitored(TRUE, <<>>)
        ELSE IF fault = "RunScript" THEN Monitored(TRUE, <<>>)
        ELSE IF fault = "buildToOutputs" \/ ~script.ok THEN Monitored(TRUE, <<>>)
        ELSE Monitored(FALSE, [f \in {n \in names : outputs[Before(n)] # outputs[n]} |->
                                  outputs[f]])

\* the watchFiles handed in: at most MaxWatch names
WatchLists == UNION {[1..k -> FileNames] : k \in 0..MaxWatch}

CallExecuteAndMonitorChange ==
    /\ ret = NoCall
    /\ \E fs \in Checkouts, script \in Scripts, watchFiles \in WatchLists,
          fault \in MonitorFaults :
          ret' = Call("executeAndMonitorChange",
                      [fs |-> fs, script |-> script, watchFiles |-> watchFiles], fault,
                      executeAndMonitorChange(fs, script, watchFiles, fault))
    /\ UNCHANGED <<tagVars, branches, changes, issues, flow, events, taskOut, started>>
    /\ UNCHANGED <<projects, selPc, selCycles, repos, planPc, updated, scanIdx, progress,
                   passes, wd, planErr>>

InitMonitor ==
    /\ ret = NoCall
    /\ projects = <<>>
    /\ repos = <<>>
    /\ selPc = "idle"
    /\ selCycles = <<>>
    /\ planPc = "idle"
    /\ updated = <<>>
    /\ scanIdx = 0
    /\ progress = FALSE
    /\ passes = 0
    /\ wd = {}
    /\ planErr = NoErr
    /\ tags = <<>>
    /\ tagCommit = ""
    /\ results = <<>>
    /\ branches = <<>>
    /\ changes = <<>>
    /\ issues = <<>>
    /\ flow = <<>>
    /\ events = <<>>
    /\ taskOut = <<>>
    /\ started = <<>>

SpecMonitor == InitMonitor /\ [][CallExecuteAndMonitorChange]_vars

----------------------------------------------------------------------------
(* The multi-module flow: the execution of the plan *)

\* f with the key k bound to v, and f without the key k
Put(f, k, v) == [x \in DOMAIN f \cup {k} |-> IF x = k THEN v ELSE f[x]]
Drop(f, k) == [x \in DOMAIN f \ {k} |-> f[x]]

\* what a task hands to the tasks that take it as input: a commit, a TagRepo,
\* the arguments of "go get", the identifier of a change
TaskResult(commit, repo, args, id) ==
    [commit |-> commit, repo |-> repo, args |-> args, id |-> id]

\* the engine starts a task of the plan once BuildPlan has returned it, when
\* the task has not started and the tasks it takes as input have completed
Startable(t) ==
    /\ planPc = "returned"
    /\ planErr = NoErr
    /\ t \in wd
    /\ t.id \notin DOMAIN started
    /\ t.inputs \subseteq DOMAIN taskOut

\* a task that starts and completes in one step
Complete(t, out) ==
    /\ started' = Put(started, t.id, out)
    /\ taskOut' = Put(taskOut, t.id, out)

\* the variables the execution of the plan leaves alone
planVars == <<projects, selPc, selCycles, repos, planPc, updated, scanIdx, progress,
              passes, wd, planErr>>

\* master of a project other than x/tools
ProjectMaster(project) == [name |-> "master", major |-> 0, minor |-> 0, project |-> project]

\* Subject of the change MailGoMod creates
GoModTitle == Title("update x/ dependencies", EmptyName)

\* the tags every project has when the plan is executed: v0.1.0 at c1
ProjectTags == <<[name |-> Release(0, 1, 0), rev |-> "c1"]>>

\* "read branch head": Gerrit.ReadBranchHead(repoName, "master")
ReadHead(i) ==
    /\ \E t \in wd :
          /\ t.id = TaskId(repos[i].Name, "read branch head")
          /\ Startable(t)
          /\ \E head \in Commits : Complete(t, TaskResult(head, ZeroRepo, <<>>, ""))
    /\ UNCHANGED <<planVars, tagVars, branches, changes, issues, flow, events, ret>>

\* the deps slice the engine hands to UpdateGoMod: the results of the inputs
\* of the task that are handles of dependencies, in the order of repo.Deps
DepsOf(t, repo) ==
    LET handles == t.inputs \ {TaskId(repo.Name, "read branch head")}
        idx     == SelectSeq([k \in 1..Len(repo.Deps) |-> k],
                             LAMBDA k : \E d \in handles :
                                           taskOut[d].repo.ModPath = repo.Deps[k])
    IN  [j \in 1..Len(idx) |->
           taskOut[CHOOSE d \in handles :
                      taskOut[d].repo.ModPath = repo.Deps[idx[j]]].repo]

\* the engine starts UpdateGoMod with the results of its inputs: args, the
\* arguments of "go get", holds dep.ModPath + "@" + dep.Version for every dep
StartUpdateGoMod(i) ==
    /\ \E t \in wd :
          /\ t.id = TaskId(repos[i].Name, "generate updated go.mod")
          /\ Startable(t)
          /\ LET deps == DepsOf(t, repos[i])
                 args == [j \in 1..Len(deps) |-> <<deps[j].ModPath, deps[j].Version>>]
                 head == taskOut[TaskId(repos[i].Name, "read branch head")].commit
             IN  started' = Put(started, t.id, TaskResult(head, ZeroRepo, args, ""))
    /\ UNCHANGED <<planVars, tagVars, branches, changes, issues, flow, events, ret, taskOut>>

\* the calls UpdateGoMod makes, in order: LatestGoBinaries, CreateBuildlet
\* and the calls on the buildlet bc
UpdateGoModCalls ==
    <<"LatestGoBinaries", "CreateBuildlet", "PutTarFromURL go", "PutTarFromURL repo",
      "Exec go get", "Exec go mod tidy", "Exec bash", "fetchFile fetchgomod",
      "fetchFile fetchgosum">>

\* what fails in one execution of UpdateGoMod: nothing, one of the calls (for
\* bc.Exec: execErr), or the command bc.Exec runs (remoteErr)
UpdateGoModFaults ==
    {"none"} \cup ToSet(UpdateGoModCalls)
        \cup {c \o ": remoteErr" : c \in {"Exec go get", "Exec go mod tidy", "Exec bash"}}

\* the body of UpdateGoMod from its k-th call on: the first call that fails
\* returns the error; "defer bc.Close()" follows a CreateBuildlet that
\* succeeded, and the deferred calls run when the function returns
RECURSIVE updateGoModFrom(_, _, _, _)
updateGoModFrom(k, fault, calls, deferred) ==
    IF k > Len(UpdateGoModCalls) THEN [err |-> FALSE, calls |-> calls \o deferred]
    ELSE IF fault \in {UpdateGoModCalls[k], UpdateGoModCalls[k] \o ": remoteErr"}
    THEN [err |-> TRUE, calls |-> Append(calls, UpdateGoModCalls[k]) \o deferred]
    ELSE updateGoModFrom(k + 1, fault, Append(calls, UpdateGoModCalls[k]),
                         IF UpdateGoModCalls[k] = "CreateBuildlet"
                         THEN <<"bc.Close">> \o deferred
                         ELSE deferred)

\* UpdateGoMod that closes the buildlet only before it returns the files
UpdateGoModCloseAtEnd(args, fault) ==
    LET run == updateGoModFrom(1, fault, <<>>, <<>>)
    IN  [err |-> run.err, out |-> IF run.err THEN <<>> ELSE args,
         calls |-> IF run.err THEN SelectSeq(run.calls, LAMBDA c : c # "bc.Close")
                   ELSE run.calls]

\* UpdateGoMod(ctx, repo, deps, commit): args are the arguments of "go get",
\* out stands for the go.mod and go.sum fetched, calls are the calls made
UpdateGoMod(args, fault) ==
    LET run == updateGoModFrom(1, fault, <<>>, <<>>)
    IN  [err |-> run.err, out |-> IF run.err THEN <<>> ELSE args, calls |-> run.calls]

\* the execution of UpdateGoMod the engine has started: an error makes the
\* engine execute the task again; otherwise go.mod and go.sum are returned.
\* ret keeps the last execution
FinishUpdateGoMod(i) ==
    /\ LET id == TaskId(repos[i].Name, "generate updated go.mod")
       IN  /\ id \in DOMAIN started
           /\ id \notin DOMAIN taskOut
           /\ \E fault \in UpdateGoModFaults :
                 LET res == UpdateGoMod(started[id].args, fault)
                 IN  /\ ret' = Call("UpdateGoMod", repos[i].ModPath, fault, res)
                     /\ IF res.err
                        THEN /\ started' = Drop(started, id)
                             /\ UNCHANGED taskOut
                        ELSE /\ taskOut' = Put(taskOut, id, started[id])
                             /\ UNCHANGED started
    /\ UNCHANGED <<planVars, tagVars, branches, changes, issues, flow, events>>

\* the changes of a project's master with the title of MailGoMod
GoModChanges(chs, project) ==
    SelectSeq(chs, LAMBDA c : c.branch = ProjectMaster(project) /\ c.title = GoModTitle)

\* MailGoMod(ctx, repo, gomod): Gerrit.CreateAutoSubmitChange and nothing
\* else. "Lost": the change is created and the execution does not complete
\* (the answer is lost, or the run is resumed from before the task), so the
\* engine executes the task again; the model follows one such repetition for
\* each module
MailGoMod(i) ==
    /\ \E t \in wd :
          /\ t.id = TaskId(repos[i].Name, "mail updated go.mod")
          /\ Startable(t)
          /\ \E fault \in {"none", "CreateAutoSubmitChange", "Lost"} :
                LET made == CreateAutoSubmitChange(changes, ProjectMaster(repos[i].Name),
                                                   GoModTitle, fault = "CreateAutoSubmitChange")
                IN  /\ fault = "Lost" => GoModChanges(changes, repos[i].Name) = <<>>
                    /\ changes' = made.changes
                    /\ IF made.err \/ fault = "Lost"
                       THEN UNCHANGED <<taskOut, started>>
                       ELSE Complete(t, TaskResult("", ZeroRepo, <<>>, made.id))
    /\ UNCHANGED <<planVars, tagVars, branches, issues, flow, events, ret>>

\* "wait for submit": VersionTasks.AwaitCL(cl, ""), which returns the commit
\* of the change once it is submitted
AwaitCL(i) ==
    /\ \E t \in wd :
          /\ t.id = TaskId(repos[i].Name, "wait for submit")
          /\ Startable(t)
          /\ LET s == Submitted(changes, taskOut[TaskId(repos[i].Name,
                                                         "mail updated go.mod")].id)
             IN  /\ s.done
                 /\ Complete(t, TaskResult(s.commit, ZeroRepo, <<>>, ""))
    /\ UNCHANGED <<planVars, tagVars, branches, changes, issues, flow, events, ret>>

\* the task whose result is tagCommit: "wait for submit" if repo has
\* dependencies, "read branch head" otherwise
TagCommitId(repo) ==
    IF Len(repo.Deps) # 0 THEN TaskId(repo.Name, "wait for submit")
    ELSE TaskId(repo.Name, "read branch head")

\* "wait for green post-submit": AwaitGreen returns nil
AwaitGreen(i) ==
    /\ \E t \in wd :
          /\ t.id = TaskId(repos[i].Name, "wait for green post-submit")
          /\ Startable(t)
          /\ Complete(t, TaskResult(taskOut[TagCommitId(repos[i])].commit, ZeroRepo, <<>>, ""))
    /\ UNCHANGED <<planVars, tagVars, branches, changes, issues, flow, events, ret>>

\* "tag if appropriate": MaybeTag(repo, tagCommit); an execution that fails
\* before Gerrit.Tag changes nothing and is repeated
TagRepoIfAppropriate(i) ==
    /\ \E t \in wd :
          /\ t.id = TaskId(repos[i].Name, "tag if appropriate")
          /\ Startable(t)
          /\ LET out == MaybeTag(ProjectTags, repos[i],
                                 taskOut[TagCommitId(repos[i])].commit, "none")
             IN  /\ ~out.err
                 /\ Complete(t, TaskResult(taskOut[TagCommitId(repos[i])].commit,
                                           out.repo, <<>>, ""))
    /\ UNCHANGED <<planVars, tagVars, branches, changes, issues, flow, events, ret>>

\* the task "done" that BuildPlan registers after every handle
DoneTask ==
    /\ \E t \in wd :
          /\ t.id = TaskId("", "done")
          /\ Startable(t)
          /\ Complete(t, TaskResult("", ZeroRepo, <<>>, ""))
    /\ UNCHANGED <<planVars, tagVars, branches, changes, issues, flow, events, ret>>

\* the plans executed: those of the lists of at most MaxProjects modules
\* that SelectRepos can return (distinct modules, no cycle, every dependency
\* a module of the list), the modules in the order mod, text, tools
ExecPaths == <<XMod, XText, XTools>>

ExecLists ==
    {rs \in RepoLists(MaxProjects) :
        /\ Len(rs) >= 1
        /\ \A i \in 1..Len(rs) : rs[i].ModPath = ExecPaths[i]
        /\ Acyclic(rs)
        /\ DepsClosed(rs)}

InitExec ==
    /\ repos \in ExecLists
    /\ projects = <<>>
    /\ selPc = "idle"
    /\ selCycles = <<>>
    /\ planPc = "loop"
    /\ updated = <<>>
    /\ scanIdx = 0
    /\ progress = FALSE
    /\ passes = 0
    /\ wd = {}
    /\ planErr = NoErr
    /\ tags = <<>>
    /\ tagCommit = ""
    /\ results = <<>>
    /\ branches = <<>>
    /\ changes = <<>>
    /\ issues = <<>>
    /\ flow = <<>>
    /\ events = <<>>
    /\ ret = NoCall
    /\ taskOut = <<>>
    /\ started = <<>>

NextExec ==
    \/ BuildPlan
    \/ \E i \in 1..Len(repos) : ReadHead(i)
    \/ \E i \in 1..Len(repos) : StartUpdateGoMod(i)
    \/ \E i \in 1..Len(repos) : FinishUpdateGoMod(i)
    \/ \E i \in 1..Len(repos) : MailGoMod(i)
    \/ \E i \in 1..Len(repos) : AwaitCL(i)
    \/ \E i \in 1..Len(repos) : AwaitGreen(i)
    \/ \E i \in 1..Len(repos) : TagRepoIfAppropriate(i)
    \/ DoneTask
    \/ SubmitChange

SpecExec == InitExec /\ [][NextExec]_vars

----------------------------------------------------------------------------
(* Properties of checkCycles *)

\* C4: checkCycles returns exactly the simple cycles of minimum length, each
\* a closed walk along dependency edges, all of one length, without
\* duplicates, and returns something whenever the graph has a cycle.
C4_ShortestCycles ==
    selPc = "checked" =>
        /\ \A k \in 1..Len(selCycles) :
              LET c == selCycles[k]
              IN  /\ Len(c) >= 2
                  /\ c[1] = c[Len(c)]
                  /\ \A i \in 1..(Len(c) - 1) : Edge(repos, c[i], c[i + 1])
        /\ \A k, l \in 1..Len(selCycles) :
              /\ Len(selCycles[k]) = Len(selCycles[l])
              /\ selCycles[k] = selCycles[l] => k = l
        /\ ToSet(selCycles) =
              {c \in SimpleCycles(repos) : Len(c) = MinCycleLen(repos)}
        /\ (selCycles # <<>>) <=> ~Acyclic(repos)

\* a graph with a 2-cycle and a 3-cycle: only the 2-cycle is reported, from
\* both of its nodes
C4_Witness ==
    /\ selPc = "checked"
    /\ Len(selCycles) = 2
    /\ \E c \in SimpleCycles(repos) : Len(c) = 4

\* C5: the set of cycles returned is the same for every order of the input
\* slice and every iteration order of reposByModule.
C5_OrderIndependent ==
    selPc = "checked" =>
        \A rs \in SeqPermutations(repos) : \A order \in MapOrders(rs) :
            ToSet(checkCycles(rs, order)) = ToSet(selCycles)

C5_Witness ==
    /\ selPc = "checked"
    /\ Len(repos) = 3
    /\ selCycles # <<>>
    /\ \E order \in MapOrders(repos) : checkCycles(repos, order) # selCycles

----------------------------------------------------------------------------
(* Properties of BuildPlan *)

\* the input entry whose sub-definition holds the task with this handle
Planned(m) == CHOOSE i \in 1..Len(repos) : repos[i].Name = updated[m][1]

\* the inner loop has visited entry i in the first pass
VisitedOnce(i) == passes >= 2 \/ (passes = 1 /\ scanIdx > i)

DoneTasks == {t \in wd : t.id = <<"", "done">>}

\* C1: in every state of plan construction, a module that has a handle in
\* updated was planned from an entry all of whose dependencies have a handle
\* too, its "generate updated go.mod" task takes those handles as inputs, and
\* an entry without dependencies has its handle once the first pass visited it.
C1_DepsPlannedFirst ==
    /\ \A m \in DOMAIN updated :
          /\ \E i \in 1..Len(repos) :
                repos[i].Name = updated[m][1] /\ repos[i].ModPath = m
          /\ \A k \in 1..Len(repos[Planned(m)].Deps) :
                LET d == repos[Planned(m)].Deps[k]
                IN  /\ d \in DOMAIN updated
                    /\ \E t \in wd :
                          /\ t.id = <<updated[m][1], "generate updated go.mod">>
                          /\ updated[d] \in t.inputs
    /\ \A i \in 1..Len(repos) :
          (repos[i].Deps = <<>> /\ VisitedOnce(i)) => repos[i].ModPath \in DOMAIN updated

\* a chain listed leaf-last has been planned in three passes
C1_Witness ==
    /\ planPc = "returned"
    /\ ~planErr.err
    /\ passes = 3
    /\ \E i \in 1..Len(repos) : Len(repos[i].Deps) = 2

\* C2 as stated: every module set without a dependency cycle is planned
\* completely.
C2_Original ==
    Acyclic(repos) =>
        /\ \A order \in MapOrders(repos) : checkCycles(repos, order) = <<>>
        /\ planPc = "returned" =>
              ~planErr.err /\ DOMAIN updated = Nodes(repos)

\* C2, amended: for a list of distinct modules without a dependency cycle in
\* which every dependency is itself in the list, checkCycles returns nothing
\* (repos never changes, so this is evaluated where BuildPlan starts) and
\* BuildPlan ends, after at most one pass per module, without error, with
\* a handle for every module and the final "done" task registered.
C2_AcyclicClosedPlanned ==
    (Acyclic(repos) /\ DepsClosed(repos) /\ DistinctPaths(repos)) =>
        /\ passes = 0 =>
              \A order \in MapOrders(repos) : checkCycles(repos, order) = <<>>
        /\ passes <= Len(repos)
        /\ planPc # "returned" => ENABLED NextPlan
        /\ planPc = "returned" =>
              /\ ~planErr.err
              /\ DOMAIN updated = Nodes(repos)
              /\ DoneTasks =
                    {[id |-> <<"", "done">>,
                      inputs |-> {<<repos[i].Name, "tag if appropriate">> :
                                     i \in 1..Len(repos)}]}

C2_Witness ==
    /\ Acyclic(repos) /\ DepsClosed(repos) /\ DistinctPaths(repos)
    /\ Len(repos) = 3
    /\ \E i \in 1..Len(repos) : repos[i].Deps # <<>>
    /\ planPc = "returned"
    /\ passes = 2

\* C3: BuildPlan ends after at most one pass per entry plus one; when it
\* returns the "failed to progress" error, the list names exactly the entries
\* whose module has no handle, none of them is ready, and no "done" task is
\* registered.
C3_NoProgressError ==
    /\ passes <= Len(repos) + 1
    /\ planPc # "returned" => ENABLED NextPlan
    /\ (planPc = "returned" /\ planErr.err) =>
          /\ ToSet(planErr.missing) =
                {repos[i].Name : i \in {j \in 1..Len(repos) :
                                           repos[j].ModPath \notin DOMAIN updated}}
          /\ \A k, l \in 1..Len(planErr.missing) :
                planErr.missing[k] = planErr.missing[l] => k = l
          /\ \A i \in 1..Len(repos) :
                repos[i].ModPath \notin DOMAIN updated =>
                    \E k \in 1..Len(repos[i].Deps) : repos[i].Deps[k] \notin DOMAIN updated
          /\ DoneTasks = {}
    /\ (planPc = "returned" /\ ~planErr.err) => DoneTasks # {}

\* A is absent, B depends on A, C depends on B: the error names B and C
C3_Witness ==
    /\ planPc = "returned"
    /\ planErr.err
    /\ Acyclic(repos)
    /\ Len(repos) = 2
    /\ Len(planErr.missing) = 2
    /\ \E i, j \in 1..Len(repos) :
          /\ repos[i].Deps = <<repos[j].ModPath>>
          /\ Len(repos[j].Deps) = 1
          /\ repos[j].Deps[1] \notin Nodes(repos)

----------------------------------------------------------------------------
(* Properties of SelectRepos *)

\* C6: when checkCycles reports a cycle among the discovered modules,
\* SelectRepos returns an error and no repositories, and BuildPlan never
\* runs: no pass is started and no task is registered.
C6_CyclesAreFatal ==
    (\E order \in MapOrders(Discovered(projects)) :
         checkCycles(Discovered(projects), order) # <<>>) =>
        /\ selPc \in {"idle", "err"}
        /\ repos = <<>>
        /\ planPc = "idle"
        /\ passes = 0
        /\ wd = {}

C6_Witness ==
    /\ selPc = "err"
    /\ selCycles # <<>>
    /\ Len(Discovered(projects)) = 2

----------------------------------------------------------------------------
(* Properties of MaybeTag *)

\* the valid non-pre-release tag names of a tag list
Releases(ts) == {n \in ToSet(ListTags(ts)) : IsValid(n) /\ n.pre = <<>>}

\* those that no other release exceeds
HighestReleases(ts) ==
    {h \in Releases(ts) : \A n \in Releases(ts) : Compare(h, n) >= 0}

\* minor incremented, patch zeroed, major unchanged
MinorBump(h) == Release(h.major, h.minor + 1, 0)

\* the tags an execution created
Created(r) == {t \in ToSet(r.out.tags) : t \notin ToSet(r.pre)}

\* C7 as stated: with at least one valid non-pre-release tag and no failure
\* of Gerrit, MaybeTag either finds the highest one at the target commit,
\* creates nothing and reports it, or creates exactly the tag
\* nextMinor(highest) at the target commit and reports that.
C7_Original ==
    \A k \in 1..Len(results) :
        LET r == results[k]
        IN  (r.out.fired = "none" /\ Releases(r.pre) # {}) =>
                \E h \in HighestReleases(r.pre) :
                    /\ ~r.out.err
                    /\ IF Revision(r.pre, h) = tagCommit
                       THEN r.out.repo.Version = h /\ Created(r) = {}
                       ELSE /\ r.out.repo.Version = MinorBump(h)
                            /\ Created(r) = {[name |-> MinorBump(h), rev |-> tagCommit]}

\* the part of C7 the code keeps: the same, when the highest release is
\* written vMAJOR.MINOR.PATCH or already is at the target commit
C7_ThreePartHighest ==
    \A k \in 1..Len(results) :
        LET r == results[k]
            h == highestRelease(ListTags(r.pre), EmptyName)
        IN  (r.out.fired = "none" /\ Releases(r.pre) # {}) =>
                /\ h \in HighestReleases(r.pre)
                /\ IF Revision(r.pre, h) = tagCommit
                   THEN ~r.out.err /\ r.out.repo.Version = h /\ Created(r) = {}
                   ELSE IF h.form = "vMmp"
                   THEN /\ ~r.out.err
                        /\ r.out.repo.Version = MinorBump(h)
                        /\ Created(r) = {[name |-> MinorBump(h), rev |-> tagCommit]}
                   ELSE r.out.err /\ Created(r) = {}

\* C8: without any valid non-pre-release tag MaybeTag returns an error and
\* the zero TagRepo, calls Gerrit.Tag with nothing and leaves the tags as
\* they were.
C8_NoReleaseIsFatal ==
    \A k \in 1..Len(results) :
        LET r == results[k]
        IN  Releases(r.pre) = {} =>
                /\ r.out.err
                /\ r.out.repo = ZeroRepo
                /\ r.out.call = EmptyName
                /\ r.out.tags = r.pre

\* only a pre-release and names that are no versions
C8_Witness ==
    \E k \in 1..Len(results) :
        /\ results[k].out.fired = "none"
        /\ Releases(results[k].pre) = {}
        /\ Len(results[k].pre) = 2
        /\ \E i \in 1..2 : IsValid(results[k].pre[i].name)

\* C9 as stated: the execution after one that created the tag calls
\* Gerrit.Tag again and returns an error.
C9_Original ==
    \A k \in 1..(Len(results) - 1) :
        (Created(results[k]) # {} /\ results[k + 1].out.fired = "none") =>
            /\ results[k + 1].out.call # EmptyName
            /\ results[k + 1].out.err

\* C9, amended: an execution after one that created the tag finds that tag
\* to be the highest release, at the target commit: unless a Gerrit read
\* fails it calls Gerrit.Tag with nothing, creates nothing and returns the
\* version of that tag without error.
C9_SecondRunReuses ==
    \A k, l \in 1..Len(results) :
        (k < l /\ Created(results[k]) # {} /\ results[l].out.fired = "none") =>
            /\ ~results[l].out.err
            /\ results[l].out.call = EmptyName
            /\ results[l].out.tags = results[l].pre
            /\ results[l].out.repo.Version = results[k].out.call
            /\ Created(results[k]) = {[name |-> results[k].out.call, rev |-> tagCommit]}

C9_Witness ==
    /\ Len(results) = 2
    /\ Created(results[1]) # {}
    /\ ~results[1].out.err
    /\ results[2].out.fired = "none"

\* C10: over any number of executions for the same module and commit at most
\* one tag is created, no tag is lost or moved, and all executions that
\* succeed report the same version.
C10_RerunSafe ==
    /\ results # <<>> =>
          /\ Len(tags) <= Len(results[1].pre) + 1
          /\ \A i \in 1..Len(results[1].pre) : tags[i] = results[1].pre[i]
    /\ \A k, l \in 1..Len(results) :
          (~results[k].out.err /\ ~results[l].out.err) =>
              results[k].out.repo.Version = results[l].out.repo.Version

\* the tag was created but the first execution failed; the re-run succeeds
C10_Witness ==
    /\ Len(results) = 2
    /\ Created(results[1]) # {}
    /\ results[1].out.err
    /\ ~results[2].out.err

----------------------------------------------------------------------------
(* The gopls versions, defined without reference to the code's loops *)

\* the triples of the final gopls releases: the gopls tags that are valid
\* versions without pre-release, a component a shorthand leaves out being 0
FinalTriples(ts) ==
    {<<ts[i].name.major, ts[i].name.minor, ts[i].name.patch>> :
        i \in {j \in 1..Len(ts) : /\ ts[j].name.form \in {"gopls/vMmp", "gopls/vMm", "gopls/vM"}
                                  /\ ts[j].name.pre = <<>>}}

\* the next major, minor and patch versions of the final releases that no
\* final release covers: no release of the next major, no release of the
\* next minor of that major, no release of that very version
Candidates(ts) ==
    LET F == FinalTriples(ts)
    IN  {Release(t[1] + 1, 0, 0) : t \in {u \in F : ~\E w \in F : w[1] = u[1] + 1}}
          \cup {Release(t[1], t[2] + 1, 0) :
                   t \in {u \in F : ~\E w \in F : w[1] = u[1] /\ w[2] = u[2] + 1}}
          \cup {Release(t[1], t[2], t[3] + 1) :
                   t \in {u \in F : <<u[1], u[2], u[3] + 1>> \notin F}}

\* the identifiers a two-part pre-release token starts with
TokenIds == {"pre", "rc", "beta"}

\* the ordinals N of the gopls tags vMAJOR.MINOR.PATCH-<id>.N of the triple of
\* semv, N a positive numeral
Ordinals(ts, semv) ==
    {n \in 1..(Len(Numerals) - 1) :
        \E i \in 1..Len(ts), id \in TokenIds :
            ts[i].name = GoplsTag(PrereleaseString(semv, <<id, Itoa(n)>>))}

Max(S) == CHOOSE n \in S : \A k \in S : k <= n

\* the token is pre.N with N a positive numeral
ExactPre(token) ==
    /\ Len(token) = 2
    /\ token[1] = "pre"
    /\ \E n \in 1..(Len(Numerals) - 1) : token[2] = Itoa(n)

\* the tags left when those are dropped whose pre-release token is neither
\* empty nor pre.N
WellFormedTags(ts) ==
    SelectSeq(ts, LAMBDA t : t.name.pre = <<>> \/ ExactPre(t.name.pre))

----------------------------------------------------------------------------
(* C14: isValidReleaseVersion and possibleGoplsVersions *)

\* C14: isValidReleaseVersion accepts a version exactly when
\* possibleGoplsVersions lists it, and then returns its parsed triple; the
\* list holds, in ascending order and once each, exactly the next major,
\* minor and patch versions of the final gopls releases that no final release
\* covers; none of them carries a final release tag; for the final tags
\* v1.2.0 and v1.2.1 it is v1.2.2, v1.3.0, v2.0.0.
C14_AcceptsCandidates ==
    LET listed == possibleGoplsVersions(tags, "none").versions
    IN  /\ ret.op = "isValidReleaseVersion" /\ ret.fault = "none"
            => /\ ~ret.out.err <=> \E i \in 1..Len(listed) : listed[i] = ret.in
               /\ ~ret.out.err => /\ ret.in = VersionString(ret.out.semv)
                                  /\ ret.out.semv.Pre = <<>>
        /\ ret.op = "isValidReleaseVersion" /\ ret.fault = "ListTags" => ret.out.err
        /\ ToSet(listed) = Candidates(tags)
        /\ \A i, j \in 1..Len(listed) : i < j => Compare(listed[i], listed[j]) < 0
        /\ \A i \in 1..Len(listed) : ~TagExists(tags, GoplsTag(listed[i]))
        /\ ToSet(ListTags(tags)) = {GoplsTag(Release(1, 2, 0)), GoplsTag(Release(1, 2, 1))}
            => listed = <<Release(1, 2, 2), Release(1, 3, 0), Release(2, 0, 0)>>

\* v1.2.2 has been accepted with the final tags v1.2.0 and v1.2.1
C14_Witness ==
    /\ ret.op = "isValidReleaseVersion"
    /\ ret.in = Release(1, 2, 2)
    /\ ~ret.out.err
    /\ ret.out.semv = semversion(1, 2, 2, <<>>)
    /\ ToSet(ListTags(tags)) = {GoplsTag(Release(1, 2, 0)), GoplsTag(Release(1, 2, 1))}

----------------------------------------------------------------------------
(* C15: nextPrerelease *)

\* C15: nextPrerelease returns pre.(m+1), m being the largest ordinal among
\* the gopls pre-release tags of exactly the requested triple and 0 when
\* there is none; the result is the same for every order of the tag list.
C15_NextOrdinal ==
    ret.op = "nextPrerelease" /\ ret.fault = "none"
        => LET ords == Ordinals(tags, ret.in)
               m    == IF ords = {} THEN 0 ELSE Max(ords)
           IN  /\ ~ret.out.err
               /\ ret.out.pre = <<"pre", Itoa(m + 1)>>
               /\ \A p \in SeqPermutations(tags) :
                      nextPrerelease(p, ret.in, "none") = ret.out

\* pre.3 then pre.1 of v1.2.0 have given pre.4
C15_Witness ==
    /\ ret.op = "nextPrerelease"
    /\ ret.in = V120
    /\ ListTags(tags) = <<GoplsTag(PrereleaseString(V120, <<"pre", "3">>)),
                          GoplsTag(PrereleaseString(V120, <<"pre", "1">>))>>
    /\ ret.out = [err |-> FALSE, pre |-> <<"pre", "4">>]

----------------------------------------------------------------------------
(* C16: the pre-release tokens that are accepted *)

\* C16: prereleaseVersion accepts a token exactly when it is pre.N with N a
\* positive integer; tags with any other token do not change what
\* nextPrerelease returns; isValidPrereleaseVersion rejects an input with
\* any other token.
C16_Original ==
    /\ ret.op = "prereleaseVersion" => (~ret.out.err <=> ExactPre(ret.in.Pre))
    /\ ret.op = "nextPrerelease" /\ ret.fault = "none"
        => ret.out = nextPrerelease(WellFormedTags(tags), ret.in, "none")
    /\ ret.op = "isValidPrereleaseVersion" /\ ~ExactPre(ret.in.pre) => ret.out.err

----------------------------------------------------------------------------
(* C21: isValidPrereleaseVersion *)

\* the version string carries a pre-release token <id>.N, N a positive numeral
HasOrdinal(version) ==
    /\ Len(version.pre) = 2
    /\ \E n \in 1..(Len(Numerals) - 1) : version.pre[2] = Itoa(n)

\* the largest pre-release ordinal of the triple among the gopls tags, 0 when
\* there is none
LatestOrdinal(ts, semv) ==
    IF Ordinals(ts, semv) = {} THEN 0 ELSE Max(Ordinals(ts, semv))

\* C21: isValidPrereleaseVersion succeeds only if the input carries the
\* largest pre-release ordinal the gopls tags of its triple have, no final tag
\* gopls/vX.Y.Z exists and the input's pre-release tag points to the head of
\* the release branch, and then returns the parsed input; an input older than
\* the latest pre-release and an input newer than it are both rejected, the
\* older one with the message "there is a newer pre-release version
\* available" and the newer one with "is not yet available" whenever the
\* tags could be listed and no final tag exists; the call changes neither
\* tags, branches, changes nor issues.
C21_LatestPrereleaseOnly ==
    [][ret'.op = "isValidPrereleaseVersion"
        => LET in     == ret'.in
               out    == ret'.out
               semv   == semversion(in.major, in.minor, in.patch, <<>>)
               latest == LatestOrdinal(tags, semv)
               n      == Atoi(in.pre[2]).n
               final  == TagExists(tags, GoplsTag(VersionString(semv)))
               listed == ret'.fault \notin {"ListTags", "ListTagsAgain"}
           IN  /\ ~out.err
                   => /\ HasOrdinal(in)
                      /\ n = latest
                      /\ ~final
                      /\ BranchExists(branches, goplsReleaseBranchName(semv))
                      /\ TagExists(tags, GoplsTag(in))
                      /\ Revision(tags, GoplsTag(in))
                            = ReadBranchHead(branches, goplsReleaseBranchName(semv), FALSE).head
                      /\ out.semv = semversion(in.major, in.minor, in.patch, in.pre)
               /\ HasOrdinal(in) /\ n < latest
                   => /\ out.err
                      /\ listed /\ ~final
                            => out.msg = "there is a newer pre-release version available"
               /\ HasOrdinal(in) /\ n > latest
                   => /\ out.err
                      /\ listed /\ ~final => out.msg = "is not yet available"
               /\ UNCHANGED <<tags, branches, changes, issues>>]_vars

\* v1.2.0-pre.3 has been accepted: pre.3 is the latest pre-release of v1.2.0,
\* its tag points to the head of the release branch and v1.2.0 is not tagged
C21_Witness ==
    /\ ret.op = "isValidPrereleaseVersion"
    /\ ret.in = PrereleaseString(V120, <<"pre", "3">>)
    /\ ~ret.out.err
    /\ TagExists(tags, GoplsTag(PrereleaseString(V120, <<"pre", "1">>)))
    /\ ~TagExists(tags, GoplsTag(Release(1, 2, 0)))

----------------------------------------------------------------------------
(* Properties of the gopls release workflows *)

\* this step completes the task of the run r
Completed(r, task) == task \notin flow[r].done /\ task \in flow'[r].done

\* C11: tags are append-only in the multi-module flow and in the gopls flows:
\* no step deletes a tag or changes the commit a tag name is bound to; a step
\* that changes the tags creates tags under names that were free.
C11_TagsAppendOnly ==
    [][/\ Len(tags') >= Len(tags)
       /\ \A i \in 1..Len(tags) : tags'[i] = tags[i]
       /\ \A i \in (Len(tags) + 1)..Len(tags') : ~TagExists(tags, tags'[i].name)]_vars

\* tagRelease has created gopls/v1.2.1 at the commit of gopls/v1.2.1-pre.1
\* and MaybeTag has created v0.2.0 of x/tools
C11_Witness ==
    /\ TagExists(tags, GoplsTag(Release(1, 2, 1)))
    /\ Revision(tags, GoplsTag(Release(1, 2, 1))) = "c2"
    /\ TagExists(tags, Release(0, 2, 0))
    /\ \E i \in 1..Len(events) : events[i].kind = "Tag"
    /\ \E i \in 1..Len(results) : results[i].out.call = Release(0, 2, 0)

\* the kinds of event that are externally visible mutations
Mutations == {"CreateIssue", "CreateBranch", "CreateChange", "Tag"}

\* C12: in both flows, no issue, branch, change or tag is created by a run
\* before its approval task has completed.
C12_Original ==
    \A i \in 1..Len(events) :
        events[i].kind \in Mutations => "approved" \in flow[events[i].run].done

\* the part of C12 that holds: the pre-release flow mutates nothing before
\* the approval
C12_PrereleaseGated ==
    \A i \in 1..Len(events) :
        (events[i].kind \in Mutations /\ flow[events[i].run].def = "prerelease")
            => "approved" \in flow[events[i].run].done

MailTasks == {"configChangeID", "dependencyChangeID", "changeID"}

MailBranch(r, task) ==
    IF task = "changeID" THEN Master ELSE goplsReleaseBranchName(flow[r].out.semv)

MailTitle(r, task) ==
    IF task = "configChangeID" THEN ConfigTitle(flow[r].out.semv)
    ELSE IF task = "dependencyChangeID"
        THEN DependencyTitle(flow[r].out.semv, flow[r].out.prerelease)
    ELSE MasterTitle(flow[r].out.semv)

\* the open changes with this title on this branch
OpenWithTitle(chs, branch, title) ==
    SelectSeq(chs, LAMBDA c : c.title = title /\ c.branch = branch /\ c.status = "open")

\* C18: when an open change with the step's title exists on the target
\* branch, updateXToolsDependency, updateCodeReviewConfig and
\* updateDependencyIfMinor return its identifier without running the script
\* or creating a change.
C18_Original ==
    [][\A r \in 1..Len(flow) : \A task \in MailTasks :
          LET open == OpenWithTitle(changes, MailBranch(r, task), MailTitle(r, task))
          IN  (Completed(r, task) /\ open # <<>>) =>
                 /\ flow'[r].out[task] = open[1].id
                 /\ changes' = changes
                 /\ events' = events]_vars

\* the part of C18 that holds: a change that the query of openCL finds (open,
\* of gobot, modified within seven days) is returned, nothing is run or
\* created
C18_ReusesQueried ==
    [][\A r \in 1..Len(flow) : \A task \in MailTasks :
          LET found == QueryChanges(changes, MailBranch(r, task), MailTitle(r, task))
          IN  (Completed(r, task) /\ found # <<>>
                 /\ (task = "changeID" => flow[r].out.semv.Patch = 0)) =>
                 /\ flow'[r].out[task] = found[1].id
                 /\ changes' = changes
                 /\ events' = events]_vars

----------------------------------------------------------------------------
(* Properties of the execution of the plan *)

\* the "tag if appropriate" task of the module m
TaggedId(m) == TaskId(repos[Planned(m)].Name, "tag if appropriate")

\* C13: when a module's "generate updated go.mod" task starts, the "tag if
\* appropriate" task of every one of its dependencies has completed, and the
\* versions it requests are those the tasks decided, dependency by
\* dependency; the result of a completed task never changes afterwards.
C13_DepsDecidedFirst ==
    [][/\ \A i \in 1..Len(repos) :
             LET id   == TaskId(repos[i].Name, "generate updated go.mod")
                 deps == repos[i].Deps
             IN  (id \notin DOMAIN started /\ id \in DOMAIN started') =>
                    /\ \A k \in 1..Len(deps) :
                          /\ TaggedId(deps[k]) \in DOMAIN taskOut
                          /\ taskOut[TaggedId(deps[k])].repo.Version # EmptyName
                    /\ started'[id].args =
                          [k \in 1..Len(deps) |->
                              <<deps[k], taskOut[TaggedId(deps[k])].repo.Version>>]
       /\ \A id \in DOMAIN taskOut :
             id \in DOMAIN taskOut' /\ taskOut'[id] = taskOut[id]]_vars

\* "generate updated go.mod" has started for a module with a dependency
\* whose MaybeTag created v0.2.0, and requests that version
C13_Witness ==
    \E i \in 1..Len(repos) :
        LET id == TaskId(repos[i].Name, "generate updated go.mod")
        IN  /\ id \in DOMAIN started
            /\ Len(repos[i].Deps) >= 1
            /\ started[id].args[1] = <<repos[i].Deps[1], Release(0, 2, 0)>>
            /\ taskOut[TaggedId(repos[i].Deps[1])].repo.Version = Release(0, 2, 0)

\* C19: at most one open change per project and title: an execution of
\* MailGoMod while the change of an earlier execution is open creates no
\* second open change with the title.
C19_Original ==
    \A a, b \in 1..Len(changes) :
        (/\ changes[a].status = "open"
         /\ changes[b].status = "open"
         /\ changes[a].branch = changes[b].branch
         /\ changes[a].title = changes[b].title) => a = b

----------------------------------------------------------------------------
(* Properties of executeAndMonitorChange *)

\* what a watched file holds before fullScript runs and after it has run, a
\* file that does not exist counting as empty
ContentBefore(in, file) == IF in.fs[file] = Absent THEN "" ELSE in.fs[file]

ContentAfter(in, file) ==
    LET fs == runScript(copyBefore(in.fs, in.watchFiles), in.script)
    IN  IF \E i \in 1..Len(in.watchFiles) : ContainsQuote(in.watchFiles[i])
        THEN ContentBefore(in, file)
        ELSE IF fs[file] = Absent THEN "" ELSE fs[file]

\* the watched files whose content after differs from their content before,
\* each with its content after
Differing(in) ==
    [f \in {n \in ToSet(in.watchFiles) : ContentAfter(in, n) # ContentBefore(in, n)} |->
        ContentAfter(in, f)]

\* the copies are kept: no file named like a watched file followed by
\* ".before" is itself watched or written by the script
CopiesKept(in) ==
    \A i \in 1..Len(in.watchFiles) :
        /\ Before(in.watchFiles[i]) \notin ToSet(in.watchFiles)
        /\ Before(in.watchFiles[i]) \notin DOMAIN in.script.writes

\* C20: the map executeAndMonitorChange returns holds exactly the watched
\* files whose content after the script differs from their content before,
\* each with its content after, whether or not the script ran successfully.
C20_Original ==
    ret.op = "executeAndMonitorChange" => ret.out.changed = Differing(ret.in)

\* C20, amended: executeAndMonitorChange returns an error and an empty (nil)
\* map when a watched name contains a quote, when RunScript fails or when the
\* build of the script fails, whatever the files hold; when it returns no
\* error and the ".before" copies of the watched files are neither watched
\* nor written by the script, the map holds exactly the watched files whose
\* content differs, each with its content after; with identical contents and
\* the copies kept the map is empty in every case.
C20_ChangedOnSuccess ==
    ret.op = "executeAndMonitorChange" =>
        /\ ret.out.err <=>
              \/ \E i \in 1..Len(ret.in.watchFiles) : ContainsQuote(ret.in.watchFiles[i])
              \/ ret.fault # "none"
              \/ ~ret.in.script.ok
        /\ ret.out.err => ret.out.changed = <<>>
        /\ (~ret.out.err /\ CopiesKept(ret.in)) => ret.out.changed = Differing(ret.in)
        /\ (Differing(ret.in) = <<>> /\ CopiesKept(ret.in)) => ret.out.changed = <<>>

\* go.mod and go.sum are watched, go.sum does not exist, the script rewrites
\* go.mod and succeeds: the map holds go.mod alone
C20_Witness ==
    /\ ret.op = "executeAndMonitorChange"
    /\ ret.in.watchFiles = <<"go.mod", "go.sum">>
    /\ ret.in.fs["go.mod"] = "a"
    /\ ret.in.fs["go.sum"] = Absent
    /\ ~ret.out.err
    /\ DOMAIN ret.out.changed = {"go.mod"}
    /\ ret.out.changed["go.mod"] = ""

----------------------------------------------------------------------------
(* Properties of the final-release flow *)

\* the tag is a final gopls tag gopls/vX.Y.Z
FinalGoplsTag(t) == t.name.form = "gopls/vMmp" /\ t.name.pre = <<>>

\* C22: a final tag gopls/vX.Y.Z is created only by a run of the release flow
\* whose validation of the input pre-release version has succeeded, under the
\* name of the input's triple and at exactly the commit the input's
\* pre-release tag points to; an execution of tagRelease that cannot read
\* the pre-release tag issues no tag creation and leaves the tags as they
\* are.
C22_FinalTagAtPrereleaseCommit ==
    [][/\ Len(tags') > Len(tags) /\ FinalGoplsTag(tags'[Len(tags')])
           => \E r \in 1..Len(flow) :
                 LET t   == tags'[Len(tags')]
                     in  == flow[r].version
                 IN  /\ flow[r].def = "release"
                     /\ "semv" \in flow[r].done
                     /\ flow[r].out.semv = semversion(in.major, in.minor, in.patch, in.pre)
                     /\ in.pre # <<>>
                     /\ t.name = GoplsTag(Release(in.major, in.minor, in.patch))
                     /\ TagExists(tags, GoplsTag(in))
                     /\ t.rev = Revision(tags, GoplsTag(in))
                     /\ tags' = Append(tags, t)
       /\ \A r \in 1..Len(flow) :
              flow[r].def = "release" /\ "semv" \in flow[r].done
                  => LET res == tagRelease(tags, flow[r].out.semv, "GetTag")
                     IN  res.err /\ res.tags = tags /\ res.call = <<>>]_vars

\* the release run for v1.2.1-pre.1, tagged at c2, has tagged v1.2.1 at c2
C22_Witness ==
    /\ flow[1].def = "release"
    /\ "tagged" \in flow[1].done
    /\ TagExists(tags, Tagged(PrereleaseString(V121, <<"pre", "1">>), "c2").name)
    /\ \E i \in 1..Len(tags) : tags[i] = Tagged(Release(1, 2, 1), "c2")

\* C23: in the release flow a change of master is created, or an open one
\* taken as the result of the dependency step, only by a run whose version
\* has patch 0 and whose tag step has completed, and it carries the title of
\* the update that follows that release; for a patch other than 0
\* updateDependencyIfMinor returns the empty change identifier whatever
\* Gerrit call would fail, creates nothing and runs no script; awaitSubmission
\* of the empty identifier returns at once, without error and without asking
\* Gerrit, whether or not Gerrit would answer.
C23_BumpOnlyForMinor ==
    [][/\ \A r \in 1..Len(flow) :
              (/\ flow[r].def = "release"
               /\ \/ Completed(r, "changeID") /\ flow'[r].out.changeID # ""
                  \/ /\ Len(changes') > Len(changes)
                     /\ events' # events
                     /\ events'[Len(events')].run = r)
                  => /\ flow[r].out.semv.Patch = 0
                     /\ "tagged" \in flow[r].done
                     /\ \E i \in 1..Len(changes') :
                            /\ changes'[i].branch = Master
                            /\ changes'[i].title = MasterTitle(flow[r].out.semv)
                            /\ Completed(r, "changeID") => changes'[i].id = flow'[r].out.changeID
       /\ \A r \in 1..Len(flow) :
              (/\ flow[r].def = "release"
               /\ "tagged" \in flow[r].done
               /\ flow[r].out.semv.Patch # 0)
                  => /\ \A fault \in ChangeFaults, changed \in BOOLEAN :
                            updateDependencyIfMinor(changes, flow[r].out.semv, changed, fault)
                                = [err |-> FALSE, id |-> "", changes |-> changes,
                                   created |-> FALSE, ran |-> FALSE]
                     /\ Completed(r, "changeID")
                            => /\ flow'[r].out.changeID = ""
                               /\ UNCHANGED <<changes, events, tags, branches>>
       /\ \A failed \in BOOLEAN :
              awaitSubmission(changes, "", failed)
                  = [err |-> FALSE, wait |-> FALSE, commit |-> "", polled |-> FALSE]
       /\ \A r \in 1..Len(flow) :
              flow[r].def = "release" /\ Completed(r, "awaited") /\ flow[r].out.changeID = ""
                  => UNCHANGED <<changes, events, tags, branches>>]_vars

\* the release run for v1.3.0-pre.1 has tagged v1.3.0 and then created the
\* change of master that follows v1.3.0
C23_Witness ==
    /\ flow[1].def = "release"
    /\ {"tagged", "changeID"} \subseteq flow[1].done
    /\ flow[1].out.semv.Patch = 0
    /\ flow[1].out.changeID # ""
    /\ TagExists(tags, GoplsTag(Release(1, 3, 0)))
    /\ \E i \in 1..Len(events) :
           events[i] = Event("CreateChange", 1, MasterTitle(V130), flow[1].out.changeID)

----------------------------------------------------------------------------
(* C24: the tag creations are not retried *)

\* the task of the run r that creates a tag
TagTask(r) == IF flow[r].def = "prerelease" THEN "prereleaseVersion" ELSE "tagged"

\* the tag creations the run r has issued
TagCalls(r) == {i \in 1..Len(events) : events[i].kind = "Tag" /\ events[i].run = r}

\* C24: the tag task of a run issues Gerrit's tag creation at most once in
\* the run; once it has issued it the task has completed or the run has
\* failed, so the task is not executed again, and it completes only having
\* issued it; every execution of tagPrerelease and tagRelease that issues the
\* tag creation has disabled retries; an execution that fails before that
\* (empty commit or empty pre-release for tagPrerelease, the pre-release tag
\* not read for tagRelease) issues no tag creation and leaves the tags as
\* they are.
C24_TagIssuedOnce ==
    /\ \A r \in 1..Len(flow) :
           /\ Cardinality(TagCalls(r)) <= 1
           /\ TagCalls(r) # {} => flow[r].status = "failed" \/ TagTask(r) \in flow[r].done
           /\ TagTask(r) \in flow[r].done => TagCalls(r) # {}
    /\ \A r \in 1..Len(flow), fault \in {"none", "Tag", "TagLost"} :
           /\ \A commit \in {"", "c1"}, pre \in {<<>>, <<"pre", "1">>} :
                  LET res == tagPrerelease(tags, flow[r].out.semv, commit, pre, fault)
                  IN  /\ res.call # <<>> => res.noRetry
                      /\ commit = "" \/ pre = <<>>
                            => res.err /\ res.call = <<>> /\ res.tags = tags
           /\ LET res == tagRelease(tags, flow[r].out.semv, fault)
                  unread == tagRelease(tags, flow[r].out.semv, "GetTag")
              IN  /\ res.call # <<>> => res.noRetry
                  /\ unread.err /\ unread.call = <<>> /\ unread.tags = tags

\* a run has failed on its tag creation, which has created no tag
C24_Witness ==
    \E r \in 1..Len(flow) :
        /\ flow[r].status = "failed"
        /\ TagTask(r) \notin flow[r].done
        /\ \E i \in TagCalls(r) : ~TagExists(tags, events[i].what)

----------------------------------------------------------------------------
(* C25: the buildlet of UpdateGoMod *)

\* how often the call c occurs among calls
Count(calls, c) == Cardinality({k \in 1..Len(calls) : calls[k] = c})

\* C25: an execution of UpdateGoMod creates at most one buildlet; when
\* CreateBuildlet has succeeded it closes the buildlet exactly once, as its
\* last call, whether it returns the files or an error of any later call;
\* when LatestGoBinaries or CreateBuildlet fails it returns the error, makes
\* no call on a buildlet and closes none.
C25_BuildletClosedOnce ==
    ret.op = "UpdateGoMod"
        => LET calls   == ret.out.calls
               created == ret.fault \notin {"LatestGoBinaries", "CreateBuildlet"}
           IN  /\ ret.out.err <=> ret.fault # "none"
               /\ created
                     => /\ Count(calls, "CreateBuildlet") = 1
                        /\ Count(calls, "bc.Close") = 1
                        /\ calls[Len(calls)] = "bc.Close"
               /\ ~created
                     => /\ ret.out.err
                        /\ \A k \in 1..Len(calls) :
                               calls[k] \in {"LatestGoBinaries", "CreateBuildlet"}
                        /\ Count(calls, "CreateBuildlet") <= 1

\* "go mod tidy" has failed on the buildlet, which has then been closed
C25_Witness ==
    /\ ret.op = "UpdateGoMod"
    /\ ret.fault = "Exec go mod tidy: remoteErr"
    /\ ret.out.err
    /\ ret.out.calls = <<"LatestGoBinaries", "CreateBuildlet", "PutTarFromURL go",
                          "PutTarFromURL repo", "Exec go get", "Exec go mod tidy", "bc.Close">>

----------------------------------------------------------------------------
(* C26: the projects SelectRepos skips and the dependencies it keeps *)

\* the project is left out without an error: master does not exist; or
\* go.mod does not exist; or the module is foreign or nested
Skipped(p) ==
    \/ p.Master = "notexist"
    \/ p.Master = "ok" /\ p.GoMod = "notexist"
    \/ p.Master = "ok" /\ p.GoMod = "ok" /\ ~isX(p.Module)

\* reading the project fails otherwise
Unreadable(p) ==
    \/ p.Master = "error"
    \/ p.Master = "ok" /\ p.GoMod \in {"error", "parseerror"}

\* C26: SelectRepos fails and returns no module when reading master or
\* reading or parsing go.mod of some project fails otherwise than by its
\* absence; when it succeeds, its result holds, in the order of the projects,
\* exactly the projects that have master and go.mod and a module of the
\* family that is not nested, and the dependencies of each are exactly the
\* requirements of its manifest that are modules of the family, not nested,
\* and not suppressed as (module, requirement).
C26_SkipsAndFilters ==
    /\ selPc # "idle" /\ (\E i \in 1..Len(projects) : Unreadable(projects[i]))
           => selPc = "err" /\ repos = <<>>
    /\ selPc = "ok"
           => LET kept == SelectSeq(projects, LAMBDA p : ~Skipped(p))
              IN  /\ Len(repos) = Len(kept)
                  /\ \A k \in 1..Len(repos) :
                         /\ repos[k].Name = kept[k].Name
                         /\ repos[k].ModPath = kept[k].Module
                         /\ repos[k].Deps
                               = SelectSeq(kept[k].Require,
                                           LAMBDA r : /\ Len(r) = 3
                                                      /\ r[1] = "golang.org" /\ r[2] = "x"
                                                      /\ <<kept[k].Module, r>> \notin
                                                            {<<XText, XTools>>, <<XText, XMod>>,
                                                             <<XMod, XTools>>})

\* x/exp with a nested module is skipped, and x/text, which requires every
\* other module, is returned with x/net as its only dependency
C26_Witness ==
    /\ selPc = "ok"
    /\ Len(projects) = 2
    /\ projects[1].Module = XExpEvent /\ projects[1].Master = "ok" /\ projects[1].GoMod = "ok"
    /\ projects[2].Module = XText /\ projects[2].Require = RequireAll(XText)
    /\ repos = <<[TagRepo("text", XText, <<XNet>>) EXCEPT !.Version = EmptyName]>>

----------------------------------------------------------------------------
(* C27: the order of the pre-release flow *)

\* the tasks of the pre-release flow in the order of the spec
PrereleaseOrder ==
    <<"semv", "prerelease", "approved", "issue", "branchCreated", "configChangeID",
      "configCommit", "dependencyChangeID", "dependencyCommit", "verified",
      "prereleaseVersion", "prereleaseVerified", "announced">>

\* this step appends an event of the run r
Logs(r) == Len(events') > Len(events) /\ events'[Len(events')].run = r

\* C27: in a run of the pre-release flow the tasks complete in one fixed
\* order, so a task that has not completed keeps every later task from
\* running; the tag creation is issued only when the dependency change has
\* been submitted and the installation at its merged commit verified, and
\* for that commit; the announcement is mailed only when the tag exists and
\* the installation of the tagged version has been verified; a run that has
\* failed runs no further task.
C27_FixedOrder ==
    [][\A r \in 1..Len(flow) :
          flow[r].def = "prerelease"
              => /\ \E k \in 0..Len(PrereleaseOrder) :
                        flow'[r].done = {PrereleaseOrder[j] : j \in 1..k}
                 /\ Logs(r) /\ events'[Len(events')].kind = "Tag"
                        => /\ {"dependencyCommit", "verified"} \subseteq flow[r].done
                           /\ \E i \in 1..Len(changes) :
                                  /\ changes[i].id = flow[r].out.dependencyChangeID
                                  /\ changes[i].status = "merged"
                                  /\ events'[Len(events')].at = MergedCommit(changes[i].id)
                 /\ Completed(r, "announced")
                        => /\ {"prereleaseVersion", "prereleaseVerified"} \subseteq flow[r].done
                           /\ TagExists(tags, GoplsTag(flow[r].out.prereleaseVersion))
                 /\ flow[r].status = "failed" => flow'[r] = flow[r] /\ ~Logs(r)]_vars

\* a run of the pre-release flow has mailed the announcement
C27_Witness ==
    /\ flow[1].def = "prerelease"
    /\ flow[1].done = ToSet(PrereleaseOrder)
    /\ TagExists(tags, GoplsTag(flow[1].out.prereleaseVersion))

----------------------------------------------------------------------------
(* C28: the commit MaybeTag decides on *)

\* this step completes the task name of the module i
Finishes(i, name) ==
    /\ TaskId(repos[i].Name, name) \notin DOMAIN taskOut
    /\ TaskId(repos[i].Name, name) \in DOMAIN taskOut'

\* C28: "tag if appropriate" of a module completes only when its "wait for
\* green post-submit" has completed, for the commit MaybeTag is called with;
\* that commit is the result of "wait for submit", the merged commit of the
\* change "mail updated go.mod" created, if the module has a dependency, and
\* the result of "read branch head" if it has none; for a module without
\* dependencies no "generate updated go.mod", "mail updated go.mod" or "wait
\* for submit" is registered or run and no change is created.
C28_TagAfterGreen ==
    [][\A i \in 1..Len(repos) :
          LET sub(name) == TaskId(repos[i].Name, name)
          IN  /\ Finishes(i, "tag if appropriate")
                    => /\ sub("wait for green post-submit") \in DOMAIN taskOut
                       /\ taskOut[sub("wait for green post-submit")].commit
                             = taskOut'[sub("tag if appropriate")].commit
                       /\ IF Len(repos[i].Deps) # 0
                          THEN /\ sub("wait for submit") \in DOMAIN taskOut
                               /\ taskOut'[sub("tag if appropriate")].commit
                                     = taskOut[sub("wait for submit")].commit
                               /\ taskOut[sub("wait for submit")].commit
                                     = MergedCommit(taskOut[sub("mail updated go.mod")].id)
                               /\ \E c \in 1..Len(changes) :
                                      /\ changes[c].id = taskOut[sub("mail updated go.mod")].id
                                      /\ changes[c].status = "merged"
                          ELSE taskOut'[sub("tag if appropriate")].commit
                                  = taskOut[sub("read branch head")].commit
              /\ Len(repos[i].Deps) = 0
                    => /\ \A name \in {"generate updated go.mod", "mail updated go.mod",
                                         "wait for submit"} :
                              /\ sub(name) \notin DOMAIN started' \cup DOMAIN taskOut'
                              /\ \A t \in wd' : t.id # sub(name)
                       /\ GoModChanges(changes', repos[i].Name) = <<>>]_vars

\* MaybeTag has decided on the merged commit of the change of a module with
\* a dependency, and on the branch head of a module without
C28_Witness ==
    \E i, j \in 1..Len(repos) :
        /\ Len(repos[i].Deps) # 0
        /\ Len(repos[j].Deps) = 0
        /\ TaskId(repos[i].Name, "tag if appropriate") \in DOMAIN taskOut
        /\ TaskId(repos[j].Name, "tag if appropriate") \in DOMAIN taskOut
        /\ taskOut[TaskId(repos[i].Name, "tag if appropriate")].commit
              = MergedCommit(taskOut[TaskId(repos[i].Name, "mail updated go.mod")].id)
        /\ taskOut[TaskId(repos[j].Name, "tag if appropriate")].commit
              = taskOut[TaskId(repos[j].Name, "read branch head")].commit

----------------------------------------------------------------------------
(* C29: the tracking issue *)

\* the issues of the version's milestone whose title is the tracking title
TrackingIssues(iss, semv) ==
    {i \in 1..Len(iss.list) :
        iss.list[i] = Issue(IssueTitle(semv), GoplsTag(VersionString(semv)))}

\* C29: createReleaseIssue completes only when the milestone of the version
\* exists; it then returns an issue of that milestone with exactly the
\* tracking title and creates nothing if there is one, and creates the issue
\* and returns it if there is none; an execution after that returns the same
\* issue and creates nothing; issues are created in no other way; without
\* the milestone every execution fails and creates nothing.
C29_IssueReusedOrCreated ==
    [][/\ \A r \in 1..Len(flow) :
              LET semv == flow[r].out.semv
              IN  /\ Completed(r, "issue")
                        => /\ GoplsTag(VersionString(semv)) \in issues.milestones
                           /\ IF TrackingIssues(issues, semv) # {}
                              THEN /\ issues' = issues
                                   /\ flow'[r].out.issue \in TrackingIssues(issues, semv)
                              ELSE /\ issues'.list
                                         = Append(issues.list,
                                                  Issue(IssueTitle(semv),
                                                        GoplsTag(VersionString(semv))))
                                   /\ issues'.milestones = issues.milestones
                                   /\ flow'[r].out.issue = Len(issues'.list)
                           /\ createReleaseIssue(issues', semv, "none")
                                 = [err |-> FALSE, id |-> flow'[r].out.issue,
                                    issues |-> issues', created |-> FALSE]
                  /\ (Ready(r, "issue") /\ GoplsTag(VersionString(semv)) \notin issues.milestones)
                        => \A fault \in IssueFaults :
                              createReleaseIssue(issues, semv, fault)
                                  = [err |-> TRUE, id |-> 0, issues |-> issues, created |-> FALSE]
       /\ issues' # issues
              => \E r \in 1..Len(flow) :
                    Completed(r, "issue") /\ TrackingIssues(issues, flow[r].out.semv) = {}]_vars

\* two runs for v1.3.0: one has created the tracking issue, the other has
\* found it
C29_Witness ==
    /\ Len(flow) = 2
    /\ "issue" \in flow[1].done \cap flow[2].done
    /\ flow[1].out.semv = V130
    /\ flow[1].out.issue = flow[2].out.issue
    /\ issues.list = <<Issue(IssueTitle(V130), GoplsTag(Release(1, 3, 0)))>>
    /\ Cardinality({i \in 1..Len(events) : events[i].kind = "CreateIssue"}) = 1

----------------------------------------------------------------------------
(* C30: BuildPlan on a list that names a module path twice *)

\* C30: when two entries of the input have the same module path, BuildPlan
\* never leaves its loop by the test on the sizes and never registers
\* "done": it returns the "failed to progress" error, and when every
\* distinct module path has been planned the list of the error is empty.
C30_DuplicatePathFails ==
    ~DistinctPaths(repos)
        => /\ Cardinality(DOMAIN updated) # Len(repos)
           /\ \A t \in wd : t.id # TaskId("", "done")
           /\ planPc = "returned"
                 => /\ planErr.err
                    /\ ~progress
                    /\ DOMAIN updated = {repos[i].ModPath : i \in 1..Len(repos)}
                          => planErr.missing = <<>>

\* x/mod listed twice: it has been planned in the first pass, the second
\* pass has planned nothing and the error lists no module
C30_Witness ==
    /\ Len(repos) = 2
    /\ repos[1].ModPath = XMod /\ repos[2].ModPath = XMod
    /\ planPc = "returned"
    /\ passes = 2
    /\ DOMAIN updated = {XMod}
    /\ planErr = [err |-> TRUE, missing |-> <<>>]

----------------------------------------------------------------------------
(* C31: the pre-release flow when the dependency needs no change *)

\* the tasks of the pre-release flow from the first verification on
FromVerified == {"verified", "prereleaseVersion", "prereleaseVerified", "announced"}

\* C31: in a run of the pre-release flow whose updateXToolsDependency has
\* returned the empty change identifier, awaitSubmission returns the empty
\* commit at once, without error and without asking Gerrit;
\* verifyGoplsInstallation fails on it in every execution, so neither the
\* verification nor any later task completes, the run issues no tag creation
\* and mails no announcement; tagPrerelease, for an empty commit or an empty
\* pre-release, returns an error without issuing a tag creation.
C31_NoChangeNoTag ==
    \A r \in 1..Len(flow) :
        /\ (/\ flow[r].def = "prerelease"
            /\ "dependencyChangeID" \in flow[r].done
            /\ flow[r].out.dependencyChangeID = "")
              => /\ \A failed \in BOOLEAN :
                        /\ awaitSubmission(changes, flow[r].out.dependencyChangeID, failed)
                              = [err |-> FALSE, wait |-> FALSE, commit |-> "", polled |-> FALSE]
                        /\ verifyGoplsInstallation(flow[r].out.dependencyCommit = "", failed).err
                 /\ flow[r].out.dependencyCommit = ""
                 /\ flow[r].done \cap FromVerified = {}
                 /\ TagCalls(r) = {}
                 /\ flow[r].out.prereleaseVersion = EmptyName
        /\ \A commit \in {"", "c1"}, pre \in {<<>>, flow[r].out.prerelease},
               fault \in {"none", "Tag", "TagLost"} :
               commit = "" \/ pre = <<>>
                   => tagPrerelease(tags, flow[r].out.semv, commit, pre, fault)
                         = [err |-> TRUE, version |-> EmptyName, tags |-> tags,
                            noRetry |-> FALSE, call |-> <<>>]

\* the script has changed nothing, the empty commit has been awaited, and the
\* run has failed on the verification, with no tag of the pre-release
C31_Witness ==
    /\ flow[1].def = "prerelease"
    /\ flow[1].out.dependencyChangeID = ""
    /\ "dependencyCommit" \in flow[1].done
    /\ flow[1].status = "failed"
    /\ \E i \in 1..Len(events) : events[i].kind = "RunScript" /\ events[i].run = 1
    /\ ~TagExists(tags, GoplsTag(PrereleaseString(flow[1].out.semv, flow[1].out.prerelease)))

----------------------------------------------------------------------------
(* C32: the pre-release ordinal of interleaved runs *)

\* C32: a run of the pre-release flow takes its pre-release from
\* nextPrerelease when "find the pre-release version" completes and keeps it;
\* its tag creation is issued under the name of that pre-release whatever
\* tags exist by then, and when a tag of that name exists already the call
\* fails, creates nothing and fails the run. So of two runs for one version
\* that have both found the pre-release before either has tagged, the later
\* issues a creation for a name that exists.
C32_OrdinalNotReread ==
    [][\A r \in 1..Len(flow) :
          flow[r].def = "prerelease"
              => LET semv == flow[r].out.semv
                     name == GoplsTag(PrereleaseString(semv, flow[r].out.prerelease))
                 IN  /\ Completed(r, "prerelease")
                           => flow'[r].out.prerelease = nextPrerelease(tags, semv, "none").pre
                     /\ "prerelease" \in flow[r].done
                           => flow'[r].out.prerelease = flow[r].out.prerelease
                     /\ (Logs(r) /\ events'[Len(events')].kind = "Tag")
                           => /\ events'[Len(events')].what = name
                              /\ TagExists(tags, name)
                                    => /\ tags' = tags
                                       /\ flow'[r].status = "failed"
                                       /\ "prereleaseVersion" \notin flow'[r].done]_vars

\* two runs for one version have found the same pre-release; the first has
\* tagged it, and the second has then issued the creation of the same tag
\* and failed, the next pre-release not being tagged
C32_Witness ==
    /\ Len(flow) = 2
    /\ flow[1].def = "prerelease"
    /\ flow[1].out.prerelease = flow[2].out.prerelease
    /\ flow[1].out.prerelease # <<>>
    /\ \E i, j \in 1..Len(events) :
           /\ i < j
           /\ events[i].kind = "Tag" /\ events[j].kind = "Tag"
           /\ events[i].run # events[j].run
           /\ events[i].what = events[j].what
           /\ "prereleaseVersion" \in flow[events[i].run].done
           /\ flow[events[j].run].status = "failed"
           /\ TagExists(tags, events[j].what)
           /\ nextPrerelease(tags, flow[1].out.semv, "none").pre # flow[1].out.prerelease

====
